---- MODULE Spec2Model ----
(***************************************************************************)
(* Device-authorization flow and credential cache of byteplus-cli          *)
(* (cmd/sso.go, cmd/oauth_client.go).                                      *)
(*                                                                         *)
(* One CLI process runs DeviceCodeFetcher.GetToken against the two cache   *)
(* files of one SSO session (token cache, client-registration cache) and   *)
(* the authorization server.  The server and the file system are the       *)
(* environment: every network call draws its outcome from the set of       *)
(* answers doOAuthPost can hand back, every cache write may fail.          *)
(* SpecFS runs writeJSONFileAtomic step by step for two writers and a      *)
(* reader of one cache path; SpecClient runs the calls of the OAuth and    *)
(* portal clients request by request, and Sso.Logout on top of them.       *)
(*                                                                         *)
(* Conventions: the number 0 stands for the empty string in the id /       *)
(* secret / token fields; a timestamp text is a sequence (<<>> is the      *)
(* empty string, <<t>> the RFC3339 text of second t); a Go pointer is a    *)
(* sequence of length 0 (nil) or 1; a message is the sequence of the       *)
(* fragments fmt.Sprintf/Errorf puts together.  Time is in whole seconds.  *)
(***************************************************************************)
EXTENDS Integers, Sequences, FiniteSets, TLC

\* ------------------------------------------------------------------ bounds
MaxTime == 5
MaxClients == 2
MaxTok == 2
MaxReads == 2
MaxPages == 3
\* Go's int is modelled IntBits wide (64 in the amd64 builds of build.sh),
\* in two's complement
IntBits == 4

\* ------------------------------------------------------- program constants
\* interval = 5 * time.Second when the server supplies <= 0
DefaultInterval == 5

deviceCodeGrantType == "urn:ietf:params:oauth:grant-type:device_code"

\* ------------------------------------------------------------ input sets
\* access tokens a CreateToken response may carry (0: field empty)
TokenValues == 0..MaxTok
\* refresh tokens a CreateToken response may carry (0: field absent)
RefreshValues == {0, 1}
\* expires_in of a CreateToken response, seconds
TokenExpiresIn == {1}
\* interval of a StartDeviceAuthorization response
IntervalValues == {0, 1, 3}
\* expires_in of a StartDeviceAuthorization response
DeviceExpiresIn == {0, 4}
\* client_secret_expires_at of a RegisterClient response (0: never)
SecretExpiresValues == {0, 3}
\* the protocol error codes the token endpoint documents
DocumentedCodes ==
    {"authorization_pending", "invalid_device_code", "expired_token",
     "invalid_token", "invalid_request", "invalid_client",
     "unsupported_grant_type", "server_error"}
\* codes a server may send: the documented ones, an unrecognized one, and
\* none at all (a non-2xx answer with an unstructured body)
ErrorCodes == DocumentedCodes \cup {"access_denied", ""}

\* ------------------------------------------------------------------ errors
\* *OAuthAPIError built by doOAuthPost on a non-2xx answer
OAuthAPIError(code) == [kind |-> "oauth", code |-> code]
\* fmt.Errorf("request failed: %w", err) and the other non-API errors of
\* doOAuthPost / of the request validation
PlainError(text) == [kind |-> "plain", code |-> text]

\* (e *OAuthAPIError) Error(): the text names Response.Error when it is set
ErrorText(err) ==
    IF err.kind = "oauth"
    THEN IF err.code # ""
         THEN <<"request failed: ", err.code, " [status]">>
         ELSE <<"request failed with status">>
    ELSE <<err.code>>

\* errors.As(err, &apiErr); return apiErr.Response.Error, true
oauthErrorCode(err) ==
    IF err.kind = "oauth" THEN [code |-> err.code, ok |-> TRUE]
    ELSE [code |-> "", ok |-> FALSE]

createTokenErrorAction(retry, reRegister, fallback, message) ==
    [Retry |-> retry, ReRegister |-> reRegister,
     FallbackToDeviceAuth |-> fallback, Message |-> message]

ZeroAction == createTokenErrorAction(FALSE, FALSE, FALSE, <<>>)

\* The switch of classifyCreateTokenError over the error code.
ClassifyCode(code) ==
    CASE code = "authorization_pending" ->
            [action |-> createTokenErrorAction(TRUE, FALSE, FALSE, <<>>), ok |-> TRUE]
      [] code \in {"invalid_device_code", "expired_token"} ->
            [action |-> createTokenErrorAction(FALSE, FALSE, FALSE,
                <<"device code is invalid or expired; please retry login">>), ok |-> TRUE]
      [] code = "invalid_token" ->
            [action |-> createTokenErrorAction(FALSE, FALSE, TRUE,
                <<"token is invalid; please retry login">>), ok |-> TRUE]
      [] code = "invalid_request" ->
            [action |-> createTokenErrorAction(FALSE, FALSE, FALSE,
                <<"token request parameters are invalid">>), ok |-> TRUE]
      [] code = "invalid_client" ->
            [action |-> createTokenErrorAction(FALSE, TRUE, FALSE,
                <<"client registration is invalid; please retry login">>), ok |-> TRUE]
      [] code = "unsupported_grant_type" ->
            [action |-> createTokenErrorAction(FALSE, FALSE, FALSE,
                <<"token grant type is not supported">>), ok |-> TRUE]
      [] code = "server_error" ->
            [action |-> createTokenErrorAction(FALSE, FALSE, FALSE,
                <<"server error while requesting token">>), ok |-> TRUE]
      [] OTHER ->
            [action |-> createTokenErrorAction(FALSE, FALSE, FALSE,
                <<"unknown error: ", code>>), ok |-> FALSE]

\* Mutant: the invalid_token arm asks for a re-registration.
classifyInvalidTokenReRegisters(err) ==
    LET c == oauthErrorCode(err) IN
    IF ~c.ok THEN [action |-> ZeroAction, ok |-> FALSE]
    ELSE IF c.code = "invalid_token"
    THEN [action |-> createTokenErrorAction(FALSE, TRUE, FALSE,
                        <<"token is invalid; please retry login">>), ok |-> TRUE]
    ELSE ClassifyCode(c.code)

classifyCreateTokenError(err) ==
    LET c == oauthErrorCode(err) IN
    IF ~c.ok THEN [action |-> ZeroAction, ok |-> FALSE]
    ELSE ClassifyCode(c.code)

\* ------------------------------------------------------------ the session
\* Sso.StartURL, Sso.SsoSessionName, Sso.Region of the one session modelled
SsoStartURL == "https://portal.example/start"
SsoSessionName == "session-1"
SsoRegion == "ap-southeast-1"

\* ------------------------------------------------------------------- time
\* time.Time.Format(time.RFC3339): the text of second t
FormatRFC3339(t) == <<t>>
\* time.Parse(time.RFC3339, s): fails on the empty string
ParseRFC3339(s) ==
    IF Len(s) = 1 THEN [ok |-> TRUE, t |-> s[1]] ELSE [ok |-> FALSE, t |-> 0]

\* Mutant: the comparison of tokenExpired turned round (Before for After).
tokenExpiredBefore(expiresAt, t) ==
    IF expiresAt = <<>> THEN TRUE
    ELSE LET p == ParseRFC3339(expiresAt) IN
         IF ~p.ok THEN TRUE ELSE t < p.t

tokenExpired(expiresAt, t) ==
    IF expiresAt = <<>> THEN TRUE
    ELSE LET p == ParseRFC3339(expiresAt) IN
         IF ~p.ok THEN TRUE ELSE t > p.t

clientSecretExpired(expiresAt, t) ==
    IF expiresAt = 0 THEN FALSE ELSE t >= expiresAt

\* ---------------------------------------------------------------- records
SsoTokenCache(access, refresh, expiresAt, cid, secret, issuedAt, secretExp) ==
    [StartURL |-> SsoStartURL, SessionName |-> SsoSessionName,
     AccessToken |-> access, ExpiresAt |-> expiresAt,
     ClientId |-> cid, ClientSecret |-> secret,
     ClientIdIssuedAt |-> issuedAt, ClientSecretExpiresAt |-> secretExp,
     RefreshToken |-> refresh, Region |-> SsoRegion]

RegisterClientResponse(cid, secret, issuedAt, secretExp) ==
    [ClientID |-> cid, ClientSecret |-> secret,
     ClientIDIssuedAt |-> issuedAt, ClientSecretExpiresAt |-> secretExp]

clientRegistrationCache(name, c) ==
    [ClientName |-> name, ClientID |-> c.ClientID, ClientSecret |-> c.ClientSecret,
     ClientIDIssuedAt |-> c.ClientIDIssuedAt,
     ClientSecretExpiresAt |-> c.ClientSecretExpiresAt]

CreateTokenResponse(access, tokenType, refresh, expiresIn) ==
    [AccessToken |-> access, TokenType |-> tokenType,
     RefreshToken |-> refresh, ExpiresIn |-> expiresIn]

StartDeviceAuthorizationResponse(deviceCode, uri, expiresIn, interval) ==
    [DeviceCode |-> deviceCode, VerificationURIComplete |-> uri,
     ExpiresIn |-> expiresIn, Interval |-> interval]

\* ------------------------------------------------------------ cache files
\* A cache file: missing, zero bytes long, bytes that are no JSON value, or
\* the JSON encoding of a record.
ZeroToken == SsoTokenCache(0, 0, <<>>, 0, 0, 0, 0)
ZeroRegistration == clientRegistrationCache("", RegisterClientResponse(0, 0, 0, 0))
AbsentFile(zero) == [kind |-> "absent", rec |-> zero]
EmptyFile(zero) == [kind |-> "empty", rec |-> zero]
GarbageFile(zero) == [kind |-> "garbage", rec |-> zero]
JSONFile(rec) == [kind |-> "json", rec |-> rec]

\* The step of a cache write at which the file system refuses, if any, one
\* for each way the write can end: "encode" stands for every failure before
\* the rename (the target stays as it was), "rename" fails the first rename
\* only, "rename+rename" both renames.
WriteFaults == {"none", "encode", "rename", "rename+rename"}

\* Mutant: after a failed first rename the target is removed and the second
\* rename is left out, without an error.
writeJSONFileAtomicDropsTarget(file, payload, zero, fault) ==
    CASE fault \in {"createTemp", "chmod", "encode", "close"} ->
            [file |-> file, err |-> <<PlainError("failed to write cache file")>>]
      [] fault \in {"rename", "rename+rename"} ->
            [file |-> AbsentFile(zero), err |-> <<>>]
      [] OTHER ->
            [file |-> JSONFile(payload), err |-> <<>>]

\* writeJSONFileAtomic: the file at the target path afterwards, and the error.
\* A failed first rename removes the target and renames again.
writeJSONFileAtomic(file, payload, zero, fault) ==
    CASE fault \in {"createTemp", "chmod", "encode", "close"} ->
            [file |-> file, err |-> <<PlainError("failed to write cache file")>>]
      [] fault = "rename" ->
            [file |-> JSONFile(payload), err |-> <<>>]
      [] fault = "rename+remove" ->
            [file |-> file, err |-> <<PlainError("failed to replace cache file")>>]
      [] fault = "rename+rename" ->
            [file |-> AbsentFile(zero), err |-> <<PlainError("failed to replace cache file")>>]
      [] OTHER ->
            [file |-> JSONFile(payload), err |-> <<>>]

\* Sso.setAccessTokenToCache: MkdirAll, then the atomic write
setAccessTokenToCache(file, token, fault) ==
    IF fault = "mkdir"
    THEN [file |-> file, err |-> <<PlainError("failed to create the cache directory")>>]
    ELSE writeJSONFileAtomic(file, token, ZeroToken, fault)

\* Mutant: the os.Remove of the unparsable file is left out.
readTokenCacheKeepsGarbage(file) ==
    CASE file.kind \in {"absent", "empty", "garbage"} ->
            [token |-> <<>>, err |-> <<>>, file |-> file]
      [] OTHER -> [token |-> <<file.rec>>, err |-> <<>>, file |-> file]

\* Sso.readTokenCache: the token read (nil when none), the error and the
\* file afterwards
readTokenCache(file) ==
    CASE file.kind = "absent" -> [token |-> <<>>, err |-> <<>>, file |-> file]
      [] file.kind = "empty" -> [token |-> <<>>, err |-> <<>>, file |-> file]
      [] file.kind = "garbage" ->
            [token |-> <<>>, err |-> <<>>, file |-> AbsentFile(ZeroToken)]
      [] OTHER -> [token |-> <<file.rec>>, err |-> <<>>, file |-> file]

\* Mutant: a registration file that fails to parse reads as absent.
loadClientRegistrationSwallows(file) ==
    IF file.kind = "json" /\ file.rec.ClientID # 0 /\ file.rec.ClientSecret # 0
    THEN [client |-> <<RegisterClientResponse(file.rec.ClientID,
                            file.rec.ClientSecret, file.rec.ClientIDIssuedAt,
                            file.rec.ClientSecretExpiresAt)>>,
          err |-> <<>>]
    ELSE [client |-> <<>>, err |-> <<>>]

\* DeviceCodeFetcher.loadClientRegistration
loadClientRegistration(file) ==
    CASE file.kind = "absent" -> [client |-> <<>>, err |-> <<>>]
      [] file.kind \in {"empty", "garbage"} ->
            [client |-> <<>>, err |-> <<PlainError("failed to read the client cache")>>]
      [] OTHER ->
            IF file.rec.ClientID = 0 \/ file.rec.ClientSecret = 0
            THEN [client |-> <<>>, err |-> <<>>]
            ELSE [client |-> <<RegisterClientResponse(file.rec.ClientID,
                                    file.rec.ClientSecret, file.rec.ClientIDIssuedAt,
                                    file.rec.ClientSecretExpiresAt)>>,
                  err |-> <<>>]

\* Mutant: the registration cache is not written.
cacheClientRegistrationSkips(file, c, clientName, fault) ==
    [file |-> file, err |-> <<>>]

\* DeviceCodeFetcher.cacheClientRegistration
cacheClientRegistration(file, c, clientName, fault) ==
    IF c.ClientID = 0 \/ c.ClientSecret = 0
    THEN [file |-> file, err |-> <<PlainError("client registration is empty")>>]
    ELSE IF fault = "mkdir"
    THEN [file |-> file, err |-> <<PlainError("failed to create the cache directory")>>]
    ELSE writeJSONFileAtomic(file, clientRegistrationCache(clientName, c),
                             ZeroRegistration, fault)

\* Mutant: the record written is always a new one; the cached record's
\* tokens are not carried over.
persistClientCredentialsFresh(file, c, cachedPtr, fault) ==
    LET token == [ZeroToken EXCEPT !.ClientId = c.ClientID,
                                   !.ClientSecret = c.ClientSecret,
                                   !.ClientIdIssuedAt = c.ClientIDIssuedAt,
                                   !.ClientSecretExpiresAt = c.ClientSecretExpiresAt]
        w == setAccessTokenToCache(file, token, fault)
    IN [file |-> w.file, err |-> w.err,
        cached |-> IF cachedPtr = <<>> THEN <<>> ELSE <<token>>]

\* DeviceCodeFetcher.persistClientCredentials: token := cached (the same
\* object when cached is not nil), so the caller's cached record changes too.
persistClientCredentials(file, c, cachedPtr, fault) ==
    LET base == IF cachedPtr = <<>> THEN ZeroToken ELSE cachedPtr[1]
        token == [base EXCEPT !.ClientId = c.ClientID,
                              !.ClientSecret = c.ClientSecret,
                              !.ClientIdIssuedAt = c.ClientIDIssuedAt,
                              !.ClientSecretExpiresAt = c.ClientSecretExpiresAt]
        w == setAccessTokenToCache(file, token, fault)
    IN [file |-> w.file, err |-> w.err,
        cached |-> IF cachedPtr = <<>> THEN <<>> ELSE <<token>>]

\* Mutant: the refresh token of the response lands in the access_token field.
storeTokenSwapsTokens(file, resp, c, t, fault) ==
    LET expiresAt == FormatRFC3339(t + resp.ExpiresIn)
        token == SsoTokenCache(resp.RefreshToken, resp.RefreshToken, expiresAt,
                               c.ClientID, c.ClientSecret, c.ClientIDIssuedAt,
                               c.ClientSecretExpiresAt)
        w == setAccessTokenToCache(file, token, fault)
    IN [file |-> w.file, err |-> w.err,
        token |-> IF w.err = <<>> THEN <<token>> ELSE <<>>]

\* DeviceCodeFetcher.storeToken
storeToken(file, resp, c, t, fault) ==
    LET expiresAt == FormatRFC3339(t + resp.ExpiresIn)
        token == SsoTokenCache(resp.AccessToken, resp.RefreshToken, expiresAt,
                               c.ClientID, c.ClientSecret, c.ClientIDIssuedAt,
                               c.ClientSecretExpiresAt)
        w == setAccessTokenToCache(file, token, fault)
    IN [file |-> w.file, err |-> w.err,
        token |-> IF w.err = <<>> THEN <<token>> ELSE <<>>]

\* ------------------------------------------------------- OAuth client API
\* A string field that holds white space only (0 is the empty string)
Whitespace == -1
FieldValues == {0, Whitespace, 1}

\* strings.TrimSpace on a string field and on a grant type
TrimSpace(x) == IF x = Whitespace THEN 0 ELSE x
TrimSpaceText(s) == IF s = " " THEN "" ELSE s

\* strings.ToLower on the grant types modelled
ToLower(s) ==
    CASE s = "REFRESH_TOKEN" -> "refresh_token"
      [] s = "Device_Code" -> "device_code"
      [] OTHER -> s

\* Mutant: the refresh token is left for the server to check.
CreateTokenValidateLate(grantType, cid, secret, refreshToken, deviceCode) ==
    IF TrimSpaceText(grantType) = "" THEN <<PlainError("grantType is required")>>
    ELSE IF TrimSpace(cid) = 0 \/ TrimSpace(secret) = 0
    THEN <<PlainError("clientId and clientSecret are required")>>
    ELSE CASE ToLower(grantType) = "refresh_token" -> <<>>
           [] ToLower(grantType) \in {deviceCodeGrantType, "device_code"} ->
                IF TrimSpace(deviceCode) = 0
                THEN <<PlainError("deviceCode is required for device_code grant")>>
                ELSE <<>>
           [] OTHER -> <<PlainError("grantType is not supported")>>

\* OAuthClient.CreateToken: the checks made before any request is sent
\* (nil when the request may go out)
CreateTokenValidate(grantType, cid, secret, refreshToken, deviceCode) ==
    IF TrimSpaceText(grantType) = "" THEN <<PlainError("grantType is required")>>
    ELSE IF TrimSpace(cid) = 0 \/ TrimSpace(secret) = 0
    THEN <<PlainError("clientId and clientSecret are required")>>
    ELSE CASE ToLower(grantType) = "refresh_token" ->
                IF TrimSpace(refreshToken) = 0
                THEN <<PlainError("refreshToken is required for refresh_token grant")>>
                ELSE <<>>
           [] ToLower(grantType) \in {deviceCodeGrantType, "device_code"} ->
                IF TrimSpace(deviceCode) = 0
                THEN <<PlainError("deviceCode is required for device_code grant")>>
                ELSE <<>>
           [] OTHER -> <<PlainError("grantType is not supported")>>

\* OAuthClient.RegisterClient, RevokeToken and StartDeviceAuthorization: the
\* checks made before any request is sent
RegisterClientValidate(clientName) ==
    IF TrimSpace(clientName) = 0 THEN <<PlainError("client_name is required")>>
    ELSE <<>>

\* Mutant: a blank token is sent to the server.
RevokeTokenValidateSends(cid, secret, token) ==
    IF TrimSpace(cid) = 0 \/ TrimSpace(secret) = 0
    THEN <<PlainError("clientId and clientSecret are required")>>
    ELSE <<>>

RevokeTokenValidate(cid, secret, token) ==
    IF TrimSpace(cid) = 0 \/ TrimSpace(secret) = 0
    THEN <<PlainError("clientId and clientSecret are required")>>
    ELSE IF TrimSpace(token) = 0 THEN <<PlainError("token is required")>>
    ELSE <<>>

StartDeviceAuthorizationValidate(cid, secret) ==
    IF TrimSpace(cid) = 0 \/ TrimSpace(secret) = 0
    THEN <<PlainError("clientId and clientSecret are required")>>
    ELSE <<>>

\* What doOAuthPost hands back for POST /token: a 2xx body, a structured
\* error, or a transport failure; then CreateToken's empty-response check.
CreateTokenAnswers ==
    {[err |-> <<>>, resp |-> <<CreateTokenResponse(a, 1, r, e)>>] :
        a \in TokenValues, r \in RefreshValues, e \in TokenExpiresIn}
    \cup {[err |-> <<PlainError("CreateToken succeeded but response was empty")>>,
           resp |-> <<>>]}
    \cup {[err |-> <<OAuthAPIError(c)>>, resp |-> <<>>] : c \in ErrorCodes}
    \cup {[err |-> <<PlainError("request failed: transport")>>, resp |-> <<>>]}

\* What OAuthClient.RegisterClient returns: the server issues client id n
\* with its secret, may omit the id, may answer with an empty body or fail.
RegisterClientAnswers(n) ==
    {[err |-> <<>>, resp |-> <<RegisterClientResponse(n, n, 0, x)>>] :
        x \in SecretExpiresValues}
    \cup {[err |-> <<>>, resp |-> <<RegisterClientResponse(0, n, 0, 0)>>],
           [err |-> <<>>, resp |-> <<RegisterClientResponse(n, Whitespace, 0, 0)>>]}
    \cup {[err |-> <<PlainError("RegisterClient succeeded but response was empty")>>,
           resp |-> <<>>]}
    \cup {[err |-> <<OAuthAPIError(c)>>, resp |-> <<>>] :
            c \in {"invalid_request", "server_error"}}
    \cup {[err |-> <<PlainError("request failed: transport")>>, resp |-> <<>>]}

\* verification_uri_complete, verification_uri and user_code of an answer:
\* 0 is the empty string
VerificationFields == {<<1, 1, 1>>, <<0, 1, 1>>, <<0, 0, 1>>, <<0, 1, 0>>}

\* The answers of the server: every device code, lifetime and interval with
\* the composite URL given, and one of them with each of VerificationFields
StartDeviceAuthorizationAnswers ==
    {[err |-> <<>>,
      resp |-> <<[DeviceCode |-> d, UserCode |-> 1, VerificationURI |-> 1,
                  VerificationURIComplete |-> 1, ExpiresIn |-> e, Interval |-> i]>>] :
        d \in {0, 1}, e \in DeviceExpiresIn, i \in IntervalValues}
    \cup {[err |-> <<>>,
           resp |-> <<[DeviceCode |-> 1, UserCode |-> v[3], VerificationURI |-> v[2],
                       VerificationURIComplete |-> v[1], ExpiresIn |-> 0,
                       Interval |-> 0]>>] : v \in VerificationFields}
    \cup {[err |-> <<OAuthAPIError(c)>>, resp |-> <<>>] :
            c \in {"invalid_client", "server_error"}}
    \cup {[err |-> <<PlainError("request failed: transport")>>, resp |-> <<>>]}

\* -------------------------------------------------------------------- state
VARIABLES
    now,            \* wall clock, seconds
    tokenFile,      \* the token cache file of the session
    regFile,        \* the client-registration cache file of the session
    nextClientId,   \* the next client id the server issues
    pc,             \* where the running GetToken stands
    cached,         \* GetToken's cached (*SsoTokenCache)
    client,         \* GetToken's client (*RegisterClientResponse)
    auth,           \* performDeviceAuthorization's device code, URL, interval, deadline
    result,         \* what GetToken returned
    trace,          \* network calls and cache writes of the running GetToken
    entry           \* the cache files and the time GetToken started with

\* The steps of writeJSONFileAtomic and of a concurrent read, file by file
VARIABLES
    link,           \* the inode the final cache path names (none: <<>>)
    inode,          \* the content of each inode
    tempName,       \* whether the temp name of each writer exists
    wpc,            \* the next step of each writer
    rd,             \* the reader: its step, its open file, what it decoded
    lastOp          \* the last change of the final path

getTokenVars == <<now, tokenFile, regFile, nextClientId, pc, cached, client, auth,
                  result, trace, entry>>
fsVars == <<link, inode, tempName, wpc, rd, lastOp>>

VARIABLES
    oauthCall,      \* the OAuth or portal client call in progress
    requests,       \* the answers to the HTTP requests the call has sent
    profiles,       \* cfg.Profiles in memory
    configFile,     \* the profiles of the configuration file on disk
    logout          \* the Logout in progress

clientVars == <<oauthCall, requests, profiles, configFile, logout>>

VARIABLES
    stsCall,        \* the EnsureValidStsToken that ran last
    fetch,          \* the fetchAllAccounts / fetchAllRoles loop in progress
    cursor,         \* a response's page figures and its computeNextToken
    keys            \* the cache keys computed for two Sso values

resolverVars == <<stsCall, fetch, cursor, keys>>

VARIABLES
    login,          \* the Sso.Login that ran last
    setProfile,     \* the Sso.SetProfile that ran last: s.Profile, ctx.config
                    \* and the configuration file
    store,          \* the configuration file and the configure command that
                    \* ran last on it
    logoutAll       \* the logoutAllSessions in progress

cliVars == <<login, setProfile, store, logoutAll>>

\* What GetToken and its environment leave alone
besideGetToken == <<fsVars, clientVars, resolverVars, cliVars>>

\* What the stepwise cache write leaves alone
besideFS == <<getTokenVars, clientVars, resolverVars, cliVars>>

vars == <<getTokenVars, fsVars, clientVars, resolverVars, cliVars>>

NetworkOps == {"RegisterClient", "CreateToken", "StartDeviceAuthorization"}
WriteOps == {"cacheClientRegistration", "persistClientCredentials", "storeToken"}

\* One entry of the trace.  res is "ok", the error code of the server or
\* "failed"; ClientID and ClientSecret are those the request carries (of
\* RegisterClient: those the response carries); at is the time of the call.
Ev(op, cid, secret, grant, res, tok, at) ==
    [op |-> op, ClientID |-> cid, ClientSecret |-> secret, grant |-> grant,
     res |-> res, AccessToken |-> tok, at |-> at]

ResOf(err) == IF err = <<>> THEN "ok"
              ELSE IF err[1].kind = "oauth" THEN err[1].code ELSE "failed"

NoAuth == [DeviceCode |-> 0, url |-> <<>>, interval |-> 0, deadline |-> 0]
NoResult == [returned |-> FALSE, token |-> <<>>, err |-> <<>>]
Success(token) == [returned |-> TRUE, token |-> <<token>>, err |-> <<>>]
Failure(msg) == [returned |-> TRUE, token |-> <<>>, err |-> msg]
NoEntry == [file |-> AbsentFile(ZeroToken), reg |-> AbsentFile(ZeroRegistration),
            at |-> 0]

\* No GetToken is running, the token cache file is file and no client
\* registration is cached.
GetTokenIdleOn(file) ==
    /\ now = 0
    /\ tokenFile = file
    /\ regFile = AbsentFile(ZeroRegistration)
    /\ nextClientId = 1
    /\ pc = "idle"
    /\ cached = <<>>
    /\ client = <<>>
    /\ auth = NoAuth
    /\ result = NoResult
    /\ trace = <<>>
    /\ entry = NoEntry

GetTokenIdle == GetTokenIdleOn(AbsentFile(ZeroToken))

\* The two concurrent writers of one cache path, and the inode of the record
\* the path held before (PrevInode).
Writers == {1, 2}
PrevInode == 0
Inodes == Writers \cup {PrevInode}
Payload(w) == SsoTokenCache(w, 0, <<>>, 0, 0, 0, 0)
NotOpen == [step |-> "Open", handle |-> <<>>, observed |-> AbsentFile(ZeroToken),
            reads |-> 0]

\* No write has started: no temp file, the path names no inode or PrevInode.
FSIdle(l) ==
    /\ link = l
    /\ inode = [i \in Inodes |-> IF i = PrevInode THEN JSONFile(Payload(PrevInode))
                                 ELSE AbsentFile(ZeroToken)]
    /\ tempName = [w \in Writers |-> FALSE]
    /\ wpc = [w \in Writers |-> "CreateTemp"]
    /\ rd = NotOpen
    /\ lastOp = [kind |-> IF l = <<>> THEN "none" ELSE "init", by |-> PrevInode,
                 winner |-> PrevInode]

\* cfg.Profiles: a profile's mode, session, picked account and role, and its
\* STS credentials (0 is the empty string, and no expiration)
ProfileNames == {"p1", "p2"}
Profile(mode, session, account, role, sts) ==
    [Mode |-> mode, SsoSessionName |-> session, AccountId |-> account,
     RoleName |-> role, AccessKey |-> sts, SecretKey |-> sts,
     SessionToken |-> sts, StsExpiration |-> sts]

\* The fields of the requests of the OAuth client
Request(grantType, cid, secret, refreshToken, deviceCode, token, clientName) ==
    [GrantType |-> grantType, ClientID |-> cid, ClientSecret |-> secret,
     RefreshToken |-> refreshToken, DeviceCode |-> deviceCode, Token |-> token,
     ClientName |-> clientName]

NoCall == [op |-> "none", state |-> "idle", caller |-> "none", maxAttempts |-> 0,
           req |-> Request("", 0, 0, 0, 0, 0, 0), err |-> <<>>]
\* token: what readTokenCache returned; before, disk: cfg.Profiles and the
\* configuration file on entry; revokeCalls, removed: the RevokeToken calls
\* made, clearCachedToken done; revoke: how revokeCachedToken ended
NoLogout == [pc |-> "idle", err |-> <<>>, token |-> <<>>, revokeCalls |-> 0,
             removed |-> FALSE, before |-> <<>>, disk |-> <<>>, revoke |-> "none"]

\* No client call and no Logout is running; the configuration holds ps.
ClientIdle(ps) ==
    /\ oauthCall = NoCall
    /\ requests = <<>>
    /\ profiles = ps
    /\ configFile = ps
    /\ logout = NoLogout

\* stsCall: given, current: the name of s.Profile and cfg.Current; before, disk,
\* file, at: cfg.Profiles, the configuration file, the token cache file and
\* the time on entry; fresh: the RoleCredentials obtained; calls, readCache,
\* wrote: portal requests made, token cache read, configuration written
NoSts == [pc |-> "idle", err |-> <<>>, given |-> "", current |-> "",
          before |-> <<>>, disk |-> <<>>, file |-> AbsentFile(ZeroToken), at |-> 0,
          fresh |-> <<>>, calls |-> 0, readCache |-> FALSE, wrote |-> FALSE]
\* fetch: server: the answers the portal gives, in order; seen: how many of
\* them the loop has received; nextToken, items: the loop's variables;
\* result: what the loop returned (<<>> is nil)
NoFetch == [pc |-> "idle", server |-> <<>>, seen |-> 0, nextToken |-> <<>>,
            items |-> <<>>, result |-> <<>>, err |-> <<>>]
\* keys: runs: the Sso values and cache directories of two runs; tokenPath,
\* registrationPath: the cache file paths each run computes
NoKeys == [pc |-> "idle", runs |-> <<>>, tokenPath |-> <<>>, registrationPath |-> <<>>]
NoCursor == [pc |-> "idle", Total |-> 0, PageNumber |-> 0, PageSize |-> 0,
             NextToken |-> <<>>]

\* No EnsureValidStsToken has run, no page is fetched, no key computed.
ResolverIdle ==
    /\ stsCall = NoSts
    /\ fetch = NoFetch
    /\ cursor = NoCursor
    /\ keys = NoKeys

\* No command of the CLI layer has run.
NoLogin == [pc |-> "idle", sso |-> <<>>, config |-> <<>>, err |-> <<>>]
NoSetProfile == [pc |-> "idle", profile |-> <<>>, config |-> <<>>, file |-> <<>>,
                 before |-> <<>>, account |-> 0, aborted |-> FALSE, err |-> <<>>]
NoCommand == [op |-> "none", name |-> 0, err |-> <<>>, before |-> <<>>]
NoStore == [file |-> <<>>, last |-> NoCommand]
NoLogoutAll == [pc |-> "idle", sessions |-> <<>>, sessionNames |-> <<>>, i |-> 0,
                attempts |-> <<>>, failed |-> {}, failures |-> <<>>, err |-> <<>>]
CliIdle ==
    /\ login = NoLogin
    /\ setProfile = NoSetProfile
    /\ store = NoStore
    /\ logoutAll = NoLogoutAll

LoggedInProfiles == [n \in ProfileNames |-> Profile("sso", SsoSessionName, 1, 1, 1)]

Init ==
    /\ CliIdle
    /\ GetTokenIdle
    /\ FSIdle(<<>>)
    /\ ClientIdle(LoggedInProfiles)
    /\ ResolverIdle

\* ------------------------------------------------------------------ GetToken
\* return ..., err / return token, nil
Return(res, events) ==
    /\ pc' = IF res.err = <<>> THEN "done" ELSE "failed"
    /\ result' = res
    /\ trace' = trace \o events

\* client == nil || client.ClientID == "" || client.ClientSecret == "" ||
\* clientSecretExpired(client.ClientSecretExpiresAt)
NeedsRegistration(c, t) ==
    \/ c = <<>>
    \/ c[1].ClientID = 0
    \/ c[1].ClientSecret = 0
    \/ clientSecretExpired(c[1].ClientSecretExpiresAt, t)

\* Mutant: the id/secret of the cached token record are not used.
ResolveClientIgnoresEmbedded(loaded, cachedPtr) == loaded

\* client falls back to the id/secret of the cached token record
ResolveClient(loaded, cachedPtr) ==
    IF loaded = <<>> /\ cachedPtr # <<>>
       /\ cachedPtr[1].ClientId # 0 /\ cachedPtr[1].ClientSecret # 0
    THEN <<RegisterClientResponse(cachedPtr[1].ClientId, cachedPtr[1].ClientSecret,
                                  cachedPtr[1].ClientIdIssuedAt,
                                  cachedPtr[1].ClientSecretExpiresAt)>>
    ELSE loaded

\* cached != nil && cached.RefreshToken != ""
HasRefreshToken(cachedPtr) == cachedPtr # <<>> /\ cachedPtr[1].RefreshToken # 0

\* cached != nil && cached.AccessToken != "" && !tokenExpired(cached.ExpiresAt)
FastPath(cachedPtr, t) ==
    /\ cachedPtr # <<>>
    /\ cachedPtr[1].AccessToken # 0
    /\ ~tokenExpired(cachedPtr[1].ExpiresAt, t)

\* GetToken from its entry to its first network call: the cache reads, the
\* fast path, the choice of the client and the defensive persist.
GetToken ==
    /\ UNCHANGED besideGetToken
    /\ pc = "idle"
    /\ auth' = NoAuth
    /\ entry' = [file |-> tokenFile, reg |-> regFile, at |-> now]
    /\ UNCHANGED <<now, regFile, nextClientId>>
    /\ LET r == readTokenCache(tokenFile) IN
       IF r.err # <<>>
       THEN /\ Return(Failure(ErrorText(r.err[1])), <<>>)
            /\ tokenFile' = r.file
            /\ cached' = <<>>
            /\ client' = <<>>
       ELSE IF FastPath(r.token, now)
       THEN /\ Return(Success(r.token[1]), <<>>)
            /\ tokenFile' = r.file
            /\ cached' = r.token
            /\ client' = <<>>
       ELSE LET lc == loadClientRegistration(regFile) IN
            IF lc.err # <<>>
            THEN /\ Return(Failure(ErrorText(lc.err[1])), <<>>)
                 /\ tokenFile' = r.file
                 /\ cached' = r.token
                 /\ client' = <<>>
            ELSE LET c == ResolveClient(lc.client, r.token) IN
                 IF NeedsRegistration(c, now)
                 THEN /\ pc' = "register"
                      /\ tokenFile' = r.file
                      /\ cached' = r.token
                      /\ client' = c
                      /\ result' = NoResult
                      /\ trace' = <<>>
                 ELSE \E fault \in WriteFaults :
                        LET p == persistClientCredentials(r.file, c[1], r.token, fault)
                            ev == Ev("persistClientCredentials", c[1].ClientID,
                                     c[1].ClientSecret, "", ResOf(p.err), 0, now)
                        IN /\ tokenFile' = p.file
                           /\ cached' = p.cached
                           /\ client' = c
                           /\ IF p.err # <<>>
                              THEN Return(Failure(ErrorText(p.err[1])), <<ev>>)
                              ELSE /\ pc' = IF HasRefreshToken(p.cached)
                                            THEN "refresh" ELSE "startDevice"
                                   /\ result' = NoResult
                                   /\ trace' = <<ev>>

\* Mutant: the error of RegisterClient is not looked at.
RegisterClientFailedUnchecked(answer) == FALSE

\* if err != nil after f.oauth.RegisterClient
RegisterClientFailed(answer) == answer.err # <<>>

\* DeviceCodeFetcher.registerClient: the request, then the two cache writes.
\* Gives the client, the error, both files, cached and the trace entries.
registerClient(answer, fault1, fault2) ==
    LET call == Ev("RegisterClient",
                   IF answer.resp = <<>> THEN 0 ELSE answer.resp[1].ClientID,
                   IF answer.resp = <<>> THEN 0 ELSE answer.resp[1].ClientSecret,
                   "", ResOf(answer.err), 0, now)
    IN
    IF RegisterClientFailed(answer)
    THEN [client |-> <<>>,
          err |-> <<"failed to register client: ">> \o ErrorText(answer.err[1]),
          regFile |-> regFile, tokenFile |-> tokenFile, cached |-> cached,
          events |-> <<call>>]
    ELSE LET resp == IF answer.resp = <<>> THEN RegisterClientResponse(0, 0, 0, 0)
                     ELSE answer.resp[1]
             w == cacheClientRegistration(regFile, resp, "byteplus-cli-uuid", fault1)
             ev1 == Ev("cacheClientRegistration", resp.ClientID, resp.ClientSecret,
                       "", ResOf(w.err), 0, now)
         IN IF w.err # <<>>
            THEN [client |-> <<>>,
                  err |-> <<"failed to persist client registration: ">>
                          \o ErrorText(w.err[1]),
                  regFile |-> w.file, tokenFile |-> tokenFile, cached |-> cached,
                  events |-> <<call, ev1>>]
            ELSE LET p == persistClientCredentials(tokenFile, resp, cached, fault2)
                     ev2 == Ev("persistClientCredentials", resp.ClientID,
                               resp.ClientSecret, "", ResOf(p.err), 0, now)
                 IN IF p.err # <<>>
                    THEN [client |-> <<>>,
                          err |-> <<"failed to cache client credentials: ">>
                                  \o ErrorText(p.err[1]),
                          regFile |-> w.file, tokenFile |-> p.file,
                          cached |-> p.cached, events |-> <<call, ev1, ev2>>]
                    ELSE [client |-> <<resp>>, err |-> <<>>,
                          regFile |-> w.file, tokenFile |-> p.file,
                          cached |-> p.cached, events |-> <<call, ev1, ev2>>]

\* The answers left to the server once it has issued MaxClients client ids:
\* the failures.
ServerRegisterAnswers ==
    {a \in RegisterClientAnswers(nextClientId) :
        nextClientId <= MaxClients \/ a.err # <<>>}

\* The server issues a new client id on a successful registration.
IssuedClientId(answer) ==
    IF answer.err = <<>> THEN nextClientId + 1 ELSE nextClientId

\* client, err = f.registerClient(ctx, cached) of the client resolution
\* (GetToken, no usable registration)
GetTokenRegister ==
    /\ UNCHANGED besideGetToken
    /\ pc = "register"
    /\ \E answer \in ServerRegisterAnswers, f1, f2 \in WriteFaults :
         LET r == registerClient(answer, f1, f2) IN
         /\ regFile' = r.regFile
         /\ tokenFile' = r.tokenFile
         /\ cached' = r.cached
         /\ client' = r.client
         /\ nextClientId' = IssuedClientId(answer)
         /\ IF r.err # <<>>
            THEN Return(Failure(r.err), r.events)
            ELSE /\ pc' = IF HasRefreshToken(r.cached) THEN "refresh" ELSE "startDevice"
                 /\ trace' = trace \o r.events
                 /\ UNCHANGED result
    /\ UNCHANGED <<now, auth, entry>>

\* client, err = f.registerClient(ctx, cached): the client that
\* performDeviceAuthorization is then given
\* Mutant: the registration's result is dropped, the old client is kept.
ReRegisteredClientKeepsOld(r) == client

ReRegisteredClient(r) == r.client

\* client, err = f.registerClient(ctx, cached) after a refresh that failed
\* with invalid_client; device authorization follows
GetTokenReRegister ==
    /\ UNCHANGED besideGetToken
    /\ pc = "reregister"
    /\ \E answer \in ServerRegisterAnswers, f1, f2 \in WriteFaults :
         LET r == registerClient(answer, f1, f2) IN
         /\ regFile' = r.regFile
         /\ tokenFile' = r.tokenFile
         /\ cached' = r.cached
         /\ client' = ReRegisteredClient(r)
         /\ nextClientId' = IssuedClientId(answer)
         /\ IF r.err # <<>>
            THEN Return(Failure(r.err), r.events)
            ELSE /\ pc' = "startDevice"
                 /\ trace' = trace \o r.events
                 /\ UNCHANGED result
    /\ UNCHANGED <<now, auth, entry>>

\* DeviceCodeFetcher.createToken over OAuthClient.CreateToken: the request
\* goes out only when the validation passes; the answer is the server's.
createToken(grantType, refreshToken, deviceCode, c, answer, t) ==
    LET invalid == CreateTokenValidate(grantType, c.ClientID, c.ClientSecret,
                                       refreshToken, deviceCode)
    IN IF invalid # <<>>
       THEN [err |-> invalid, resp |-> <<>>, events |-> <<>>]
       ELSE [err |-> answer.err, resp |-> answer.resp,
             events |-> <<Ev("CreateToken", c.ClientID, c.ClientSecret, grantType,
                             ResOf(answer.err),
                             IF answer.resp = <<>> THEN 0
                             ELSE answer.resp[1].AccessToken, t)>>]

\* if action.FallbackToDeviceAuth, under if action, ok := classify...; ok
\* Mutant: every classified error that asks for no re-registration falls
\* back to device authorization.
RefreshFallsBackUnlessReRegister(cl) == cl.ok /\ ~cl.action.ReRegister

RefreshFallsBack(cl) == cl.ok /\ cl.action.FallbackToDeviceAuth

\* Mutant: a refresh answered authorization_pending is tried again, the way
\* the poll loop does.
RefreshNextRetries(cl) ==
    IF cl.ok /\ cl.action.ReRegister THEN "reregister"
    ELSE IF RefreshFallsBack(cl) THEN "startDevice"
    ELSE IF cl.ok /\ cl.action.Retry THEN "refresh"
    ELSE "failed"

\* Mutant: the refresh token of the response is stored.
refreshTokenResponseKeepsServer(resp, refreshToken) == resp

\* DeviceCodeFetcher.refreshToken: resp.RefreshToken = refreshToken
refreshTokenResponse(resp, refreshToken) ==
    [resp EXCEPT !.RefreshToken = refreshToken]

\* Where GetToken goes after a failed refresh: registerClient, then device
\* authorization; device authorization; or return the error
RefreshNext(cl) ==
    IF cl.ok /\ cl.action.ReRegister THEN "reregister"
    ELSE IF RefreshFallsBack(cl) THEN "startDevice"
    ELSE "failed"

\* token, err := f.refreshToken(ctx, cached.RefreshToken, client) and the
\* classification of its error
GetTokenRefresh ==
    /\ UNCHANGED besideGetToken
    /\ pc = "refresh"
    /\ \E answer \in CreateTokenAnswers, fault \in WriteFaults :
         LET c == client[1]
             ct == createToken("refresh_token", cached[1].RefreshToken, 0, c,
                               answer, now)
         IN IF ct.err = <<>>
            THEN LET resp == refreshTokenResponse(ct.resp[1], cached[1].RefreshToken)
                     st == storeToken(tokenFile, resp, c, now, fault)
                     ev == Ev("storeToken", c.ClientID, c.ClientSecret, "",
                              ResOf(st.err), resp.AccessToken, now)
                 IN /\ tokenFile' = st.file
                    /\ IF st.err = <<>>
                       THEN Return(Success(st.token[1]), ct.events \o <<ev>>)
                       ELSE Return(Failure(ErrorText(st.err[1])), ct.events \o <<ev>>)
            ELSE LET cl == classifyCreateTokenError(ct.err[1]) IN
                 /\ UNCHANGED tokenFile
                 /\ IF RefreshNext(cl) # "failed"
                    THEN /\ pc' = RefreshNext(cl)
                         /\ trace' = trace \o ct.events
                         /\ UNCHANGED result
                    ELSE IF cl.ok /\ cl.action.Message # <<>>
                    THEN Return(Failure(cl.action.Message), ct.events)
                    ELSE Return(Failure(ErrorText(ct.err[1])), ct.events)
    /\ UNCHANGED <<now, regFile, nextClientId, cached, client, auth, entry>>

\* Mutant: the URL is put together whatever the parts are.
ConfirmationURLUnchecked(resp) ==
    IF resp.VerificationURIComplete # 0 THEN <<"verification_uri_complete">>
    ELSE <<"verification_uri", "?user_code=", "user_code">>

\* verificationURIComplete of performDeviceAuthorization: the server's, or
\* "<verification_uri>?user_code=<user_code>" (<<>> is the empty string)
ConfirmationURL(resp) ==
    IF resp.VerificationURIComplete # 0 THEN <<"verification_uri_complete">>
    ELSE IF resp.VerificationURI # 0 /\ resp.UserCode # 0
    THEN <<"verification_uri", "?user_code=", "user_code">>
    ELSE <<>>

\* Mutant: the interval of the server is taken as it comes.
PollIntervalAsSent(resp) == resp.Interval

\* interval of the poll loop, in seconds
PollInterval(resp) == IF resp.Interval <= 0 THEN DefaultInterval ELSE resp.Interval

\* performDeviceAuthorization up to the poll loop: StartDeviceAuthorization,
\* the confirmation URL, the interval and the deadline
StartDevice ==
    /\ UNCHANGED besideGetToken
    /\ pc = "startDevice"
    /\ \E answer \in StartDeviceAuthorizationAnswers :
         LET c == client[1]
             call == Ev("StartDeviceAuthorization", c.ClientID, c.ClientSecret, "",
                        ResOf(answer.err), 0, now)
         IN IF TrimSpace(c.ClientID) = 0 \/ TrimSpace(c.ClientSecret) = 0
            THEN /\ Return(Failure(<<"failed to start device authorization: ",
                                     "clientId and clientSecret are required">>), <<>>)
                 /\ UNCHANGED auth
            ELSE IF answer.err # <<>>
            THEN /\ Return(Failure(<<"failed to start device authorization: ">>
                                   \o ErrorText(answer.err[1])), <<call>>)
                 /\ UNCHANGED auth
            ELSE IF ConfirmationURL(answer.resp[1]) = <<>>
            THEN /\ Return(Failure(<<"failed to start device authorization: verificationURI is empty">>),
                           <<call>>)
                 /\ UNCHANGED auth
            ELSE /\ pc' = "poll"
                 /\ auth' = [DeviceCode |-> answer.resp[1].DeviceCode,
                             url |-> ConfirmationURL(answer.resp[1]),
                             interval |-> PollInterval(answer.resp[1]),
                             deadline |-> now + answer.resp[1].ExpiresIn]
                 /\ trace' = trace \o <<call>>
                 /\ UNCHANGED result
    /\ UNCHANGED <<now, tokenFile, regFile, nextClientId, cached, client, entry>>

\* for time.Now().Before(deadline)
BeforeDeadline(t, deadline) == t < deadline

\* if action.Retry { continue }, under if action, ok := classify...; ok
\* Mutant: an error the classification does not know is retried too.
PollContinuesUnclassified(cl) == ~cl.ok \/ cl.action.Retry

PollContinues(cl) == cl.ok /\ cl.action.Retry

\* One iteration of the poll loop: the sleep, the CreateToken request and
\* what the loop does with its answer.
Poll ==
    /\ UNCHANGED besideGetToken
    /\ pc = "poll"
    /\ BeforeDeadline(now, auth.deadline)
    /\ now + auth.interval <= MaxTime
    /\ now' = now + auth.interval
    /\ \E answer \in CreateTokenAnswers, fault \in WriteFaults :
         LET c == client[1]
             ct == createToken(deviceCodeGrantType, 0, auth.DeviceCode, c,
                               answer, now')
         IN IF ct.err = <<>>
            THEN LET st == storeToken(tokenFile, ct.resp[1], c, now', fault)
                     ev == Ev("storeToken", c.ClientID, c.ClientSecret, "",
                              ResOf(st.err), ct.resp[1].AccessToken, now')
                 IN /\ tokenFile' = st.file
                    /\ IF st.err = <<>>
                       THEN Return(Success(st.token[1]), ct.events \o <<ev>>)
                       ELSE Return(Failure(ErrorText(st.err[1])), ct.events \o <<ev>>)
            ELSE LET cl == classifyCreateTokenError(ct.err[1]) IN
                 /\ UNCHANGED tokenFile
                 /\ IF PollContinues(cl)
                    THEN /\ trace' = trace \o ct.events
                         /\ UNCHANGED <<pc, result>>
                    ELSE IF cl.ok /\ cl.action.Message # <<>>
                    THEN Return(Failure(cl.action.Message), ct.events)
                    ELSE Return(Failure(<<"failed to poll access token: ">>
                                        \o ErrorText(ct.err[1])), ct.events)
    /\ UNCHANGED <<regFile, nextClientId, cached, client, auth, entry>>

TimeoutMessage == <<"authorization has timed out. Please try again">>

\* The loop condition fails: authorization has timed out.
PollTimeout ==
    /\ UNCHANGED besideGetToken
    /\ pc = "poll"
    /\ ~BeforeDeadline(now, auth.deadline)
    /\ Return(Failure(TimeoutMessage), <<>>)
    /\ UNCHANGED <<now, tokenFile, regFile, nextClientId, cached, client, auth,
                   entry>>

\* The process ends; the next invocation starts from the files alone.
Exit ==
    /\ UNCHANGED besideGetToken
    /\ pc \in {"done", "failed"}
    /\ pc' = "idle"
    /\ cached' = <<>>
    /\ client' = <<>>
    /\ auth' = NoAuth
    /\ result' = NoResult
    /\ trace' = <<>>
    /\ entry' = NoEntry
    /\ UNCHANGED <<now, tokenFile, regFile, nextClientId>>

\* ------------------------------------------------------------- environment
\* Time passes between two invocations.
Tick ==
    /\ UNCHANGED besideGetToken
    /\ pc = "idle"
    /\ now < MaxTime
    /\ now' = now + 1
    /\ UNCHANGED <<tokenFile, regFile, nextClientId, pc, cached, client, auth,
                   result, trace, entry>>

\* The token cache file is truncated or overwritten with bytes that are no
\* JSON value (a crash of another program, a full disk, an editor).
DamageTokenCache ==
    /\ UNCHANGED besideGetToken
    /\ pc = "idle"
    /\ tokenFile.kind \in {"absent", "json"}
    /\ \E f \in {EmptyFile(ZeroToken), GarbageFile(ZeroToken)} : tokenFile' = f
    /\ UNCHANGED <<now, regFile, nextClientId, pc, cached, client, auth,
                   result, trace, entry>>

\* The client-registration cache file is truncated or overwritten with bytes
\* that are no JSON value.
DamageClientCache ==
    /\ UNCHANGED besideGetToken
    /\ pc = "idle"
    /\ regFile.kind \in {"absent", "json"}
    /\ \E f \in {EmptyFile(ZeroRegistration), GarbageFile(ZeroRegistration)} :
          regFile' = f
    /\ UNCHANGED <<now, tokenFile, nextClientId, pc, cached, client, auth,
                   result, trace, entry>>

Next ==
    \/ GetToken
    \/ GetTokenRegister
    \/ GetTokenReRegister
    \/ GetTokenRefresh
    \/ StartDevice
    \/ Poll
    \/ PollTimeout
    \/ Exit
    \/ Tick
    \/ DamageTokenCache
    \/ DamageClientCache

Spec == Init /\ [][Next]_vars

\* One invocation of GetToken on an empty cache, started at any time: the
\* registration, then performDeviceAuthorization.  time.Sleep returns and
\* time.Now() moves on, so the loop takes its next step.
NextPoll ==
    \/ Tick
    \/ GetToken
    \/ GetTokenRegister
    \/ StartDevice
    \/ Poll
    \/ PollTimeout

SpecPoll == Init /\ [][NextPoll]_vars /\ WF_vars(Poll) /\ WF_vars(PollTimeout)

\* ------------------------------------------------- writeJSONFileAtomic, stepwise
\* The steps of writeJSONFileAtomic as the file system sees them, run by two
\* processes on one cache path while a third reads it.  A writer may crash
\* before any step; each step may fail.

\* Mutant: the temp file is renamed onto the path before it is closed.
NextStepRenameBeforeClose(step) ==
    CASE step = "CreateTemp" -> "Chmod"
      [] step = "Chmod" -> "Encode"
      [] step = "Encode" -> "Rename"
      [] step = "Rename" -> "Close"
      [] OTHER -> "ok"

\* Mutant: the temp file is renamed onto the path right after it is created
\* and written afterwards.
NextStepRenameFirst(step) ==
    CASE step = "CreateTemp" -> "Rename"
      [] step = "Rename" -> "Chmod"
      [] step = "Chmod" -> "Encode"
      [] step = "Encode" -> "Close"
      [] OTHER -> "ok"

\* The step that follows a step which succeeded
NextStep(step) ==
    CASE step = "CreateTemp" -> "Chmod"
      [] step = "Chmod" -> "Encode"
      [] step = "Encode" -> "Close"
      [] step = "Close" -> "Rename"
      [] OTHER -> "ok"

\* Mutant: a rename that does not replace an existing target.
RenameOntoKeepsTarget(l, w) == IF l = <<>> THEN <<w>> ELSE l

\* os.Rename(tempName, path): the path names the inode of the temp file
RenameOnto(l, w) == <<w>>

\* The last change of the path: by a rename (the writer is the winner so
\* far) or by a remove
Replaced(w) == [kind |-> "replace", by |-> w, winner |-> w]
Removed(w) == [lastOp EXCEPT !.kind = "remove", !.by = w]

\* return with retErr set: the deferred Close and Remove of the temp file
\* are still to run
Fails(w) == wpc' = [wpc EXCEPT ![w] = "cleanup"]
Succeeds(w, step) == wpc' = [wpc EXCEPT ![w] = NextStep(step)]

\* os.CreateTemp(dir, ".tmp-*")
CreateTemp(w) ==
    /\ wpc[w] = "CreateTemp"
    /\ \/ /\ inode' = [inode EXCEPT ![w] = EmptyFile(ZeroToken)]
          /\ tempName' = [tempName EXCEPT ![w] = TRUE]
          /\ Succeeds(w, "CreateTemp")
       \/ /\ wpc' = [wpc EXCEPT ![w] = "error"]
          /\ UNCHANGED <<inode, tempName>>
    /\ UNCHANGED <<link, rd, lastOp, besideFS>>

\* tempFile.Chmod(perm)
Chmod(w) ==
    /\ wpc[w] = "Chmod"
    /\ Succeeds(w, "Chmod") \/ Fails(w)
    /\ UNCHANGED <<link, inode, tempName, rd, lastOp, besideFS>>

\* encoder.Encode(payload), its first bytes: the temp file holds a part of
\* the record
EncodeBegin(w) ==
    /\ wpc[w] = "Encode"
    /\ \/ /\ inode' = [inode EXCEPT ![w] = GarbageFile(ZeroToken)]
          /\ wpc' = [wpc EXCEPT ![w] = "Encoding"]
       \/ /\ Fails(w)
          /\ UNCHANGED inode
    /\ UNCHANGED <<link, tempName, rd, lastOp, besideFS>>

\* encoder.Encode(payload), its last bytes
EncodeEnd(w) ==
    /\ wpc[w] = "Encoding"
    /\ \/ /\ inode' = [inode EXCEPT ![w] = JSONFile(Payload(w))]
          /\ Succeeds(w, "Encode")
       \/ /\ Fails(w)
          /\ UNCHANGED inode
    /\ UNCHANGED <<link, tempName, rd, lastOp, besideFS>>

\* tempFile.Close()
Close(w) ==
    /\ wpc[w] = "Close"
    /\ Succeeds(w, "Close") \/ Fails(w)
    /\ UNCHANGED <<link, inode, tempName, rd, lastOp, besideFS>>

\* os.Rename(tempName, path); on failure the stale target is removed next
Rename(w) ==
    /\ wpc[w] = "Rename"
    /\ \/ /\ link' = RenameOnto(link, w)
          /\ tempName' = [tempName EXCEPT ![w] = FALSE]
          /\ lastOp' = Replaced(w)
          /\ Succeeds(w, "Rename")
       \/ /\ wpc' = [wpc EXCEPT ![w] = "Remove"]
          /\ UNCHANGED <<link, tempName, lastOp>>
    /\ UNCHANGED <<inode, rd, besideFS>>

\* removeErr := os.Remove(path); nil or IsNotExist leads to the second rename
Remove(w) ==
    /\ wpc[w] = "Remove"
    /\ \/ /\ link' = <<>>
          /\ lastOp' = IF link = <<>> THEN lastOp ELSE Removed(w)
          /\ wpc' = [wpc EXCEPT ![w] = "Rename2"]
       \/ /\ Fails(w)
          /\ UNCHANGED <<link, lastOp>>
    /\ UNCHANGED <<inode, tempName, rd, besideFS>>

\* err2 := os.Rename(tempName, path)
Rename2(w) ==
    /\ wpc[w] = "Rename2"
    /\ \/ /\ link' = RenameOnto(link, w)
          /\ tempName' = [tempName EXCEPT ![w] = FALSE]
          /\ lastOp' = Replaced(w)
          /\ Succeeds(w, "Rename")
       \/ /\ Fails(w)
          /\ UNCHANGED <<link, tempName, lastOp>>
    /\ UNCHANGED <<inode, rd, besideFS>>

\* the deferred function: _ = tempFile.Close(); _ = os.Remove(tempName).
\* The error of the remove is dropped: the temp file may stay.
Cleanup(w) ==
    /\ wpc[w] = "cleanup"
    /\ \/ tempName' = [tempName EXCEPT ![w] = FALSE]
       \/ UNCHANGED tempName
    /\ wpc' = [wpc EXCEPT ![w] = "error"]
    /\ UNCHANGED <<link, inode, rd, lastOp, besideFS>>

\* The process of a writer dies; nothing of it runs any more.
Crash(w) ==
    /\ wpc[w] \notin {"ok", "error", "crashed"}
    /\ wpc' = [wpc EXCEPT ![w] = "crashed"]
    /\ UNCHANGED <<link, inode, tempName, rd, lastOp, besideFS>>

\* Sso.readTokenCache, os.Open(filePath): the reader holds the inode the
\* path names now, or finds no file
ReaderOpen ==
    /\ rd.step = "Open"
    /\ rd.reads < MaxReads
    /\ rd' = IF link = <<>>
             THEN [rd EXCEPT !.observed = AbsentFile(ZeroToken), !.reads = @ + 1]
             ELSE [rd EXCEPT !.step = "Decode", !.handle = link]
    /\ UNCHANGED <<link, inode, tempName, wpc, lastOp, besideFS>>

\* Sso.readTokenCache, Decode and Close: the reader decodes what its inode
\* holds now, and removes the path when that is no JSON value
ReaderDecode ==
    /\ rd.step = "Decode"
    /\ LET content == inode[rd.handle[1]]
           r == readTokenCache(content)
       IN /\ rd' = [rd EXCEPT !.step = "Open", !.handle = <<>>,
                              !.observed = content, !.reads = @ + 1]
          /\ IF r.file.kind # content.kind
             THEN link' = <<>> /\ lastOp' = Removed(PrevInode)
             ELSE UNCHANGED <<link, lastOp>>
    /\ UNCHANGED <<inode, tempName, wpc, besideFS>>

InitFS ==
    /\ CliIdle
    /\ GetTokenIdle
    /\ \E l \in {<<>>, <<PrevInode>>} : FSIdle(l)
    /\ ClientIdle(LoggedInProfiles)
    /\ ResolverIdle

NextFS ==
    \/ \E w \in Writers : CreateTemp(w)
    \/ \E w \in Writers : Chmod(w)
    \/ \E w \in Writers : EncodeBegin(w)
    \/ \E w \in Writers : EncodeEnd(w)
    \/ \E w \in Writers : Close(w)
    \/ \E w \in Writers : Rename(w)
    \/ \E w \in Writers : Remove(w)
    \/ \E w \in Writers : Rename2(w)
    \/ \E w \in Writers : Cleanup(w)
    \/ \E w \in Writers : Crash(w)
    \/ ReaderOpen
    \/ ReaderDecode

SpecFS == InitFS /\ [][NextFS]_vars

\* --------------------------------------- OAuth and portal calls, by request
defaultRegisterPath == "/client/register"

\* c.registerURL, c.tokenURL, c.revokeURL, c.deviceURL without the base URL
Endpoint(op) ==
    CASE op = "RegisterClient" -> defaultRegisterPath
      [] op = "CreateToken" -> "/token"
      [] op = "RevokeToken" -> "/revoke"
      [] op = "StartDeviceAuthorization" -> "/device_authorization"

\* Mutant: the attempts of registration and of the other calls are swapped.
doOAuthPostAttemptsSwapped(url) == IF url = defaultRegisterPath THEN 3 ELSE 1

\* doOAuthPost: maxAttempts handed to doWithRetry
doOAuthPostAttempts(url) == IF url = defaultRegisterPath THEN 1 ELSE 3

\* doPortalGet: maxAttempts handed to doWithRetry
doPortalGetAttempts == 3

\* What one HTTP request can meet: a 2xx answer with or without a body, a
\* structured 4xx or 5xx error, or no answer at all (status 0).
HTTPAnswers ==
    {[status |-> 200, code |-> "", body |-> b] : b \in {"full", "empty"}}
    \cup {[status |-> 400, code |-> "authorization_pending", body |-> "full"],
          [status |-> 500, code |-> "server_error", body |-> "full"],
          [status |-> 0, code |-> "", body |-> "empty"]}

\* The function doOAuthPost hands to doWithRetry: the error of one request
doOAuthPostOnce(answer) ==
    IF answer.status = 0 THEN <<PlainError("request failed: transport")>>
    ELSE IF answer.status \div 100 # 2 THEN <<OAuthAPIError(answer.code)>>
    ELSE <<>>

\* PortalClient.doPortalGetOnce: the error of one request
doPortalGetOnce(answer) ==
    IF answer.status = 0 THEN <<PlainError("request failed: transport")>>
    ELSE IF answer.status \div 100 # 2 THEN <<PlainError("portal request failed")>>
    ELSE <<>>

\* The empty-response check that follows a successful doOAuthPost
EmptyResponse(op, answer) ==
    IF op \in {"RegisterClient", "CreateToken", "StartDeviceAuthorization"}
       /\ answer.body = "empty"
    THEN <<PlainError("succeeded but response was empty")>>
    ELSE <<>>

\* doWithRetry: a failed attempt is followed by another one while attempts
\* remain and the failure is a transport failure or a 5xx answer.
Retryable(answer) == answer.status = 0 \/ answer.status \div 100 = 5
doWithRetryAgain(maxAttempts, made, answer) ==
    made < maxAttempts /\ Retryable(answer)

\* A call after its validation: returned at once, or about to send
Begin(op, caller, req, invalid, attempts) ==
    [op |-> op, caller |-> caller, maxAttempts |-> attempts, req |-> req,
     state |-> IF invalid = <<>> THEN "posting" ELSE "returned", err |-> invalid]

ClientPairs == {<<1, 1>>, <<0, 1>>, <<1, Whitespace>>}
GrantTypes == {"", " ", "refresh_token", "REFRESH_TOKEN", deviceCodeGrantType,
               "device_code", "Device_Code", "password"}

besideClient == <<now, regFile, nextClientId, pc, cached, client, auth, result,
                  trace, entry, fsVars, resolverVars, cliVars>>

CanCall == oauthCall.state = "idle" /\ logout.pc = "idle"

CallRegisterClient ==
    /\ CanCall
    /\ \E name \in FieldValues :
         oauthCall' = Begin("RegisterClient", "none", Request("", 0, 0, 0, 0, 0, name),
                       RegisterClientValidate(name),
                       doOAuthPostAttempts(Endpoint("RegisterClient")))
    /\ UNCHANGED <<requests, profiles, configFile, logout, tokenFile, besideClient>>

CallCreateToken ==
    /\ CanCall
    /\ \E g \in GrantTypes, c \in ClientPairs, r \in FieldValues, d \in FieldValues :
         oauthCall' = Begin("CreateToken", "none", Request(g, c[1], c[2], r, d, 0, 0),
                       CreateTokenValidate(g, c[1], c[2], r, d),
                       doOAuthPostAttempts(Endpoint("CreateToken")))
    /\ UNCHANGED <<requests, profiles, configFile, logout, tokenFile, besideClient>>

CallRevokeToken ==
    /\ CanCall
    /\ \E c \in ClientPairs, t \in FieldValues :
         oauthCall' = Begin("RevokeToken", "none", Request("", c[1], c[2], 0, 0, t, 0),
                       RevokeTokenValidate(c[1], c[2], t),
                       doOAuthPostAttempts(Endpoint("RevokeToken")))
    /\ UNCHANGED <<requests, profiles, configFile, logout, tokenFile, besideClient>>

CallStartDeviceAuthorization ==
    /\ CanCall
    /\ \E c \in ClientPairs :
         oauthCall' = Begin("StartDeviceAuthorization", "none",
                       Request("", c[1], c[2], 0, 0, 0, 0),
                       StartDeviceAuthorizationValidate(c[1], c[2]),
                       doOAuthPostAttempts(Endpoint("StartDeviceAuthorization")))
    /\ UNCHANGED <<requests, profiles, configFile, logout, tokenFile, besideClient>>

\* PortalClient.doPortalGet
CallPortal ==
    /\ CanCall
    /\ oauthCall' = Begin("Portal", "none", NoCall.req, <<>>, doPortalGetAttempts)
    /\ UNCHANGED <<requests, profiles, configFile, logout, tokenFile, besideClient>>

\* One attempt of doWithRetry: the request goes out and is answered.
Attempt ==
    /\ oauthCall.state = "posting"
    /\ \E answer \in HTTPAnswers :
         LET made == Len(requests) + 1
             err == IF oauthCall.op = "Portal" THEN doPortalGetOnce(answer)
                    ELSE doOAuthPostOnce(answer)
         IN /\ requests' = Append(requests, answer)
            /\ oauthCall' = IF err # <<>> /\ doWithRetryAgain(oauthCall.maxAttempts, made, answer)
                       THEN oauthCall
                       ELSE [oauthCall EXCEPT !.state = "returned",
                                         !.err = IF err # <<>> THEN err
                                                 ELSE EmptyResponse(oauthCall.op, answer)]
    /\ UNCHANGED <<profiles, configFile, logout, tokenFile, besideClient>>

\* The caller has the result; the client is free for the next call.
CallDone ==
    /\ oauthCall.state = "returned"
    /\ oauthCall.caller = "none"
    /\ oauthCall' = NoCall
    /\ requests' = <<>>
    /\ UNCHANGED <<profiles, configFile, logout, tokenFile, besideClient>>

\* -------------------------------------------------------------------- Logout
ModeSSO == "sso"

\* strings.ToLower(strings.TrimSpace(profile.Mode)) on the modes modelled
NormalMode(mode) == IF mode = " SSO " THEN "sso" ELSE mode

\* The profiles clearProfileStsCredentials does not skip
BoundToSession(p) == NormalMode(p.Mode) = ModeSSO /\ p.SsoSessionName = SsoSessionName

\* Sso.clearProfileStsCredentials: cfg.Profiles and the configuration file
\* afterwards, and the error of WriteConfigToFile
clearProfileStsCredentials(ps, file, writeFails) ==
    LET cleared == [n \in DOMAIN ps |->
                      IF BoundToSession(ps[n])
                      THEN [ps[n] EXCEPT !.AccessKey = 0, !.SecretKey = 0,
                                         !.SessionToken = 0, !.StsExpiration = 0,
                                         !.RoleName = 0, !.AccountId = 0]
                      ELSE ps[n]]
        updated == \E n \in DOMAIN ps : BoundToSession(ps[n])
    IN IF ~updated THEN [profiles |-> cleared, file |-> file, err |-> <<>>]
       ELSE IF writeFails
       THEN [profiles |-> cleared, file |-> file,
             err |-> <<PlainError("failed to write the configuration file")>>]
       ELSE [profiles |-> cleared, file |-> cleared, err |-> <<>>]

\* Sso.revokeCachedToken before the client is called: fail, return nil
\* without a call, or call RevokeToken
revokeCachedTokenStep(tok) ==
    IF TrimSpace(tok.ClientId) = 0 \/ TrimSpace(tok.ClientSecret) = 0
    THEN "error"
    ELSE IF TrimSpace(tok.RefreshToken) = 0 THEN "skip"
    ELSE "call"

\* Logout from clearCachedToken on: os.Remove of the token cache file, then
\* clearProfileStsCredentials
LogoutClear(l, removeFails, writeFails) ==
    IF removeFails
    THEN /\ logout' = [l EXCEPT !.pc = "done",
                         !.err = <<PlainError("failed to remove token cache file")>>]
         /\ UNCHANGED <<tokenFile, profiles, configFile>>
    ELSE LET c == clearProfileStsCredentials(profiles, configFile, writeFails)
         IN /\ tokenFile' = AbsentFile(ZeroToken)
            /\ profiles' = c.profiles
            /\ configFile' = c.file
            /\ logout' = [l EXCEPT !.pc = "done", !.err = c.err, !.removed = TRUE]

SessionStates == {"configured", "missing", "no start URL"}

\* Sso.Logout up to the call of RevokeToken, or to its end when no call is made
Logout ==
    /\ CanCall
    /\ \E session \in SessionStates, removeFails \in BOOLEAN, writeFails \in BOOLEAN :
         LET r == readTokenCache(tokenFile)
             l == [NoLogout EXCEPT !.before = profiles, !.disk = configFile,
                                  !.token = r.token]
         IN IF session = "missing"
            THEN /\ logout' = [l EXCEPT !.pc = "done", !.token = <<>>,
                                 !.err = <<PlainError("there is no SSO session")>>]
                 /\ UNCHANGED <<tokenFile, profiles, configFile, oauthCall>>
            ELSE IF session = "no start URL"
            THEN /\ logout' = [l EXCEPT !.pc = "done", !.token = <<>>,
                                 !.err = <<PlainError("the sign-in URL is not configured")>>]
                 /\ UNCHANGED <<tokenFile, profiles, configFile, oauthCall>>
            ELSE IF r.err # <<>>
            THEN /\ logout' = [l EXCEPT !.pc = "done", !.err = r.err]
                 /\ tokenFile' = r.file
                 /\ UNCHANGED <<profiles, configFile, oauthCall>>
            ELSE IF r.token = <<>>
            THEN LET c == clearProfileStsCredentials(profiles, configFile, writeFails)
                 IN /\ tokenFile' = r.file
                    /\ profiles' = c.profiles
                    /\ configFile' = c.file
                    /\ logout' = [l EXCEPT !.pc = "done", !.err = c.err]
                    /\ UNCHANGED oauthCall
            ELSE CASE revokeCachedTokenStep(r.token[1]) = "error" ->
                        /\ logout' = [l EXCEPT !.pc = "done", !.revoke = "failed",
                                        !.err = <<PlainError("client credentials are missing in the cache")>>]
                        /\ UNCHANGED <<tokenFile, profiles, configFile, oauthCall>>
                   [] revokeCachedTokenStep(r.token[1]) = "skip" ->
                        /\ LogoutClear([l EXCEPT !.revoke = "skipped"], removeFails,
                                       writeFails)
                        /\ UNCHANGED oauthCall
                   [] OTHER ->
                        LET cid == TrimSpace(r.token[1].ClientId)
                            secret == TrimSpace(r.token[1].ClientSecret)
                            token == TrimSpace(r.token[1].RefreshToken)
                        IN /\ oauthCall' = Begin("RevokeToken", "Logout",
                                            Request("", cid, secret, 0, 0, token, 0),
                                            RevokeTokenValidate(cid, secret, token),
                                            doOAuthPostAttempts(Endpoint("RevokeToken")))
                           /\ logout' = [l EXCEPT !.pc = "revoking", !.revokeCalls = 1]
                           /\ UNCHANGED <<tokenFile, profiles, configFile>>
    /\ UNCHANGED <<requests, besideClient>>

\* Mutant: the error of the revoke is dropped.
RevokeFailedIgnored(err) == FALSE

\* if err := s.revokeCachedToken(tokenCache); err != nil { return err }
RevokeFailed(err) == err # <<>>

\* Sso.Logout from the return of RevokeToken on
LogoutRevoked ==
    /\ logout.pc = "revoking"
    /\ oauthCall.state = "returned"
    /\ \E removeFails \in BOOLEAN, writeFails \in BOOLEAN :
         LET l == [logout EXCEPT
                     !.revoke = IF oauthCall.err # <<>> THEN "failed" ELSE "ok"]
         IN IF RevokeFailed(oauthCall.err)
            THEN /\ logout' = [l EXCEPT !.pc = "done", !.err = oauthCall.err]
                 /\ UNCHANGED <<tokenFile, profiles, configFile>>
            ELSE LogoutClear(l, removeFails, writeFails)
    /\ oauthCall' = NoCall
    /\ requests' = <<>>
    /\ UNCHANGED besideClient

\* Logout has returned.
LogoutDone ==
    /\ logout.pc = "done"
    /\ logout' = NoLogout
    /\ UNCHANGED <<oauthCall, requests, profiles, configFile, tokenFile, besideClient>>

\* The token cache files and the profiles a Logout can find
LogoutTokenFiles ==
    {AbsentFile(ZeroToken), EmptyFile(ZeroToken), GarbageFile(ZeroToken)}
    \cup {JSONFile(SsoTokenCache(1, r, <<>>, c, c, 0, 0)) :
            r \in FieldValues, c \in {0, 1}}

ProfileChoices ==
    {Profile("sso", SsoSessionName, 1, 1, 1),
     Profile(" SSO ", SsoSessionName, 1, 1, 0),
     Profile("sso", "session-2", 1, 1, 1),
     Profile("ak", "", 0, 0, 1)}

InitClient ==
    /\ CliIdle
    /\ \E f \in LogoutTokenFiles : GetTokenIdleOn(f)
    /\ FSIdle(<<>>)
    /\ \E ps \in [ProfileNames -> ProfileChoices] : ClientIdle(ps)
    /\ ResolverIdle

NextClient ==
    \/ CallRegisterClient
    \/ CallCreateToken
    \/ CallRevokeToken
    \/ CallStartDeviceAuthorization
    \/ CallPortal
    \/ Attempt
    \/ CallDone
    \/ Logout
    \/ LogoutRevoked
    \/ LogoutDone

SpecClient == InitClient /\ [][NextClient]_vars

\* ------------------------------------------------------- EnsureValidStsToken
\* util.UnixTimestampToTime on the values modelled: time is kept in whole
\* seconds and every expiration lies below the 1e12 at which the function
\* starts to read its argument as milliseconds, so the seconds branch is taken.
UnixTimestampToTime(ts) == ts

\* Mutant: the credentials count as expired one second early.
StsTokenValidEarly(p, t) ==
    /\ TrimSpace(p.SessionToken) # 0
    /\ p.StsExpiration > 0
    /\ t + 1 < UnixTimestampToTime(p.StsExpiration)

\* stsToken != "" && expiration > 0 && time.Now().Before(...)
StsTokenValid(p, t) ==
    /\ TrimSpace(p.SessionToken) # 0
    /\ p.StsExpiration > 0
    /\ t < UnixTimestampToTime(p.StsExpiration)

AccessTokenExpired == PlainError("your access token has expired")

\* Sso.GetAccessToken: the access token (0 when none), the error and the
\* token cache file afterwards
GetAccessToken(file, t) ==
    LET r == readTokenCache(file)
        p == ParseRFC3339(r.token[1].ExpiresAt)
    IN IF r.err # <<>>
       THEN [token |-> 0, file |-> r.file,
             err |-> <<PlainError("failed to read access token cache")>>]
       ELSE IF r.token = <<>> \/ TrimSpace(r.token[1].AccessToken) = 0
       THEN [token |-> 0, file |-> r.file,
             err |-> <<PlainError("no cached access token found")>>]
       ELSE IF ~p.ok
       THEN [token |-> 0, file |-> r.file,
             err |-> <<PlainError("failed to parse access token expiry")>>]
       ELSE IF t > p.t
       THEN [token |-> 0, file |-> r.file, err |-> <<AccessTokenExpired>>]
       ELSE [token |-> r.token[1].AccessToken, file |-> r.file, err |-> <<>>]

RoleCredentials(key, expiration) ==
    [AccessKeyID |-> key, SecretAccessKey |-> key, SessionToken |-> key,
     Expiration |-> expiration]

\* What the portal answers to GetRoleCredentials once doPortalGet is done
RoleCredentialsAnswers ==
    {[err |-> <<>>, creds |-> <<RoleCredentials(3, MaxTime + 1)>>],
     [err |-> <<PlainError("portal request failed")>>, creds |-> <<>>]}

\* PortalClient.GetRoleCredentials: the RoleCredentials, the error, and the
\* number of exchanges sent
PortalGetRoleCredentials(token, account, role, answer) ==
    IF TrimSpace(token) = 0
    THEN [creds |-> <<>>, err |-> <<PlainError("access token is required")>>, calls |-> 0]
    ELSE IF TrimSpace(account) = 0
    THEN [creds |-> <<>>, err |-> <<PlainError("accountId is required")>>, calls |-> 0]
    ELSE IF TrimSpace(role) = 0
    THEN [creds |-> <<>>, err |-> <<PlainError("roleName is required")>>, calls |-> 0]
    ELSE [creds |-> answer.creds, err |-> answer.err, calls |-> 1]

\* Sso.GetRoleCredentials: GetAccessToken, then the exchange; the errors are
\* wrapped with %w and are kept here by their innermost message
GetRoleCredentials(file, p, t, answer) ==
    LET a == GetAccessToken(file, t)
        g == PortalGetRoleCredentials(a.token, p.AccountId, p.RoleName, answer)
    IN IF a.err # <<>>
       THEN [creds |-> <<>>, err |-> a.err, file |-> a.file, calls |-> 0]
       ELSE [creds |-> g.creds, err |-> g.err, file |-> a.file, calls |-> g.calls]

\* s.Profile.AccessKey = ... ; ctx.config.Profiles[ctx.config.Current] =
\* s.Profile: cfg.Profiles afterwards. s.Profile is a *Profile; when it is
\* the pointer held by cfg.Profiles[given] the assignments to its fields show
\* under that name as well, when it is a copy they do not.
StoreProfile(ps, given, current, aliased, creds) ==
    LET p == [ps[given] EXCEPT !.AccessKey = creds.AccessKeyID,
                               !.SecretKey = creds.SecretAccessKey,
                               !.SessionToken = creds.SessionToken,
                               !.StsExpiration = creds.Expiration]
        mine == IF aliased THEN [ps EXCEPT ![given] = p] ELSE ps
    IN [mine EXCEPT ![current] = p]

\* Sso.EnsureValidStsToken, for the profile named given of a configuration
\* whose current profile is named current
EnsureValidStsToken ==
    /\ pc = "idle"
    /\ CanCall
    /\ stsCall.pc = "idle"
    /\ \E given \in ProfileNames, current \in ProfileNames, aliased \in BOOLEAN,
          session \in SessionStates, answer \in RoleCredentialsAnswers,
          writeFails \in BOOLEAN :
         LET p == profiles[given]
             c == [NoSts EXCEPT !.pc = "done", !.given = given, !.current = current,
                                !.before = profiles, !.disk = configFile,
                                !.file = tokenFile, !.at = now]
             g == GetRoleCredentials(tokenFile, p, now, answer)
             ps == StoreProfile(profiles, given, current, aliased, g.creds[1])
         IN IF StsTokenValid(p, now)
            THEN /\ stsCall' = c
                 /\ UNCHANGED <<tokenFile, profiles, configFile>>
            ELSE IF session = "missing"
            THEN /\ stsCall' = [c EXCEPT !.err = <<PlainError("there is no SSO session")>>]
                 /\ UNCHANGED <<tokenFile, profiles, configFile>>
            ELSE IF session = "no start URL"
            THEN /\ stsCall' = [c EXCEPT
                                  !.err = <<PlainError("the start URL is not configured")>>]
                 /\ UNCHANGED <<tokenFile, profiles, configFile>>
            ELSE IF g.err # <<>>
            THEN /\ stsCall' = [c EXCEPT !.err = g.err, !.calls = g.calls,
                                         !.readCache = TRUE]
                 /\ tokenFile' = g.file
                 /\ UNCHANGED <<profiles, configFile>>
            ELSE /\ stsCall' = [c EXCEPT
                                  !.err = IF writeFails
                                          THEN <<PlainError("failed to write the configuration file")>>
                                          ELSE <<>>,
                                  !.calls = g.calls, !.readCache = TRUE,
                                  !.fresh = g.creds, !.wrote = ~writeFails]
                 /\ tokenFile' = g.file
                 /\ profiles' = ps
                 /\ configFile' = IF writeFails THEN configFile ELSE ps
    /\ UNCHANGED <<now, regFile, nextClientId, pc, cached, client, auth, result,
                   trace, entry, fsVars, oauthCall, requests, logout, fetch, cursor,
                   keys, cliVars>>

\* EnsureValidStsToken has returned.
StsDone ==
    /\ stsCall.pc = "done"
    /\ stsCall' = NoSts
    /\ UNCHANGED <<cliVars, getTokenVars, fsVars, clientVars, fetch, cursor, keys>>

\* The profiles and token cache files an EnsureValidStsToken can find: a
\* profile of each name, told apart by its account
StsCredentials ==
    {<<1, 1>>, <<1, MaxTime + 1>>, <<Whitespace, MaxTime + 1>>, <<0, 0>>}
StsProfiles(n) ==
    {[Profile("sso", SsoSessionName, IF n = "p1" THEN 1 ELSE 2, 1, c[1])
         EXCEPT !.StsExpiration = c[2]] : c \in StsCredentials}
    \cup {Profile("sso", SsoSessionName, 1, 0, 0)}
StsTokenFiles ==
    {AbsentFile(ZeroToken), GarbageFile(ZeroToken)}
    \cup {JSONFile(SsoTokenCache(c[1], c[2], c[3], 1, 1, 0, 0)) :
            c \in {<<1, 1, FormatRFC3339(1)>>,
                   <<1, 1, FormatRFC3339(MaxTime + 1)>>,
                   <<0, 1, FormatRFC3339(MaxTime + 1)>>}}

InitSts ==
    /\ CliIdle
    /\ \E f \in StsTokenFiles : GetTokenIdleOn(f)
    /\ FSIdle(<<>>)
    /\ \E ps \in [ProfileNames -> UNION {StsProfiles(n) : n \in ProfileNames}] :
         /\ \A n \in ProfileNames : ps[n] \in StsProfiles(n)
         /\ ClientIdle(ps)
    /\ ResolverIdle

NextSts ==
    \/ EnsureValidStsToken
    \/ StsDone
    \/ Tick

SpecSts == InitSts /\ [][NextSts]_vars

\* ---------------------------------------------------------------- pagination
\* Go's int: the value a result takes at the width of the type
MaxInt == 2^(IntBits - 1) - 1
MinInt == -(2^(IntBits - 1))
Ints == MinInt..MaxInt
WrapInt(x) == ((x - MinInt) % 2^IntBits) + MinInt

\* strconv.Itoa and strconv.Atoi: a string is the sequence of its words, ""
\* is <<>>, and the decimal numeral of n is the one word n
Itoa(n) == <<n>>
Atoi(s) == IF Len(s) = 1 THEN [ok |-> TRUE, n |-> s[1]] ELSE [ok |-> FALSE, n |-> 0]

\* Mutant: a full last page still has a successor.
computeNextTokenInclusive(total, pageNumber, pageSize) ==
    IF pageSize <= 0 \/ pageNumber <= 0 THEN <<>>
    ELSE IF total >= WrapInt(pageNumber * pageSize) THEN Itoa(WrapInt(pageNumber + 1))
    ELSE <<>>

\* computeNextToken
computeNextToken(total, pageNumber, pageSize) ==
    IF pageSize <= 0 \/ pageNumber <= 0 THEN <<>>
    ELSE IF total > WrapInt(pageNumber * pageSize) THEN Itoa(WrapInt(pageNumber + 1))
    ELSE <<>>

\* resolvePageNumber: the page asked for, or the error
resolvePageNumber(pageNumber, nextToken) ==
    IF pageNumber > 0 THEN [page |-> pageNumber, err |-> <<>>]
    ELSE IF nextToken = <<>> THEN [page |-> 1, err |-> <<>>]
    ELSE IF ~Atoi(nextToken).ok \/ Atoi(nextToken).n < 1
    THEN [page |-> 0, err |-> <<PlainError("invalid NextToken")>>]
    ELSE [page |-> Atoi(nextToken).n, err |-> <<>>]

\* computeNextToken applied to the figures of one response
ComputeNextToken ==
    /\ cursor.pc = "input"
    /\ cursor' = [cursor EXCEPT !.pc = "computed",
                    !.NextToken = computeNextToken(cursor.Total, cursor.PageNumber,
                                                   cursor.PageSize)]
    /\ UNCHANGED <<cliVars, getTokenVars, fsVars, clientVars, stsCall, fetch, keys>>

InitCursor ==
    /\ CliIdle
    /\ GetTokenIdle
    /\ FSIdle(<<>>)
    /\ ClientIdle(LoggedInProfiles)
    /\ stsCall = NoSts
    /\ fetch = NoFetch
    /\ keys = NoKeys
    /\ \E total \in Ints, pageNumber \in Ints, pageSize \in Ints :
         cursor = [NoCursor EXCEPT !.pc = "input", !.Total = total,
                                   !.PageNumber = pageNumber, !.PageSize = pageSize]

NextCursor == ComputeNextToken

SpecCursor == InitCursor /\ [][NextCursor]_vars

\* What the portal can answer to one ListAccounts or ListAccountRoles: an
\* error, or a page with its figures and count items. The figures are the
\* server's: a page with a successor, a last page, a page without page
\* number or page size, and pages whose product exceeds the int.
PageFigures ==
    {<<3, 1, 2, 2>>, <<3, 2, 2, 1>>, <<0, 1, 2, 0>>, <<3, 0, 2, 1>>, <<3, 1, 0, 1>>,
     <<1, MaxInt, 2, 1>>, <<1, MaxInt - 1, 2, 1>>}
PageChoices ==
    {[err |-> <<>>, Total |-> f[1], PageNumber |-> f[2], PageSize |-> f[3],
      count |-> f[4]] : f \in PageFigures}
    \cup {[err |-> <<PlainError("portal request failed")>>, Total |-> 0,
           PageNumber |-> 0, PageSize |-> 0, count |-> 0]}

\* The items of the page answered at position i: told apart by page and place
PageItems(i, count) == [k \in 1..count |-> <<i, k>>]
Servers ==
    UNION {[1..n -> PageChoices] : n \in 1..MaxPages}

\* PortalClient.ListAccounts / ListAccountRoles for the request the loop
\* makes (PageNumber 0, the given NextToken), answered by a
ListPage(nextToken, a, i) ==
    LET r == resolvePageNumber(0, nextToken)
    IN IF r.err # <<>> THEN [err |-> r.err, items |-> <<>>, NextToken |-> <<>>, sent |-> 0]
       ELSE IF a.err # <<>>
       THEN [err |-> a.err, items |-> <<>>, NextToken |-> <<>>, sent |-> 1]
       ELSE [err |-> <<>>, items |-> PageItems(i, a.count),
             NextToken |-> computeNextToken(a.Total, a.PageNumber, a.PageSize),
             sent |-> 1]

\* fetchAllAccounts / fetchAllRoles is called.
FetchAll ==
    /\ fetch.pc = "idle"
    /\ \E server \in Servers :
         fetch' = [NoFetch EXCEPT !.pc = "fetching", !.server = server]
    /\ UNCHANGED <<cliVars, getTokenVars, fsVars, clientVars, stsCall, cursor, keys>>

\* Mutant: the items gathered so far are returned with the error.
FetchFailedPartial(items) == <<items>>

\* return nil, fmt.Errorf(...)
FetchFailed(items) == <<>>

\* One turn of the loop: the call, append, and the test of resp.NextToken
FetchPage ==
    /\ fetch.pc = "fetching"
    /\ fetch.seen < Len(fetch.server)
    /\ LET i == fetch.seen + 1
           resp == ListPage(fetch.nextToken, fetch.server[i], i)
           items == fetch.items \o resp.items
       IN fetch' =
            IF resp.err # <<>>
            THEN [fetch EXCEPT !.pc = "done", !.seen = fetch.seen + resp.sent,
                               !.err = resp.err, !.result = FetchFailed(fetch.items)]
            ELSE IF resp.NextToken = <<>>
            THEN [fetch EXCEPT !.pc = "done", !.seen = i, !.items = items,
                               !.result = <<items>>]
            ELSE [fetch EXCEPT !.seen = i, !.items = items,
                               !.nextToken = resp.NextToken]
    /\ UNCHANGED <<cliVars, getTokenVars, fsVars, clientVars, stsCall, cursor, keys>>

\* The loop has returned.
FetchDone ==
    /\ fetch.pc = "done"
    /\ fetch' = NoFetch
    /\ UNCHANGED <<cliVars, getTokenVars, fsVars, clientVars, stsCall, cursor, keys>>

NextPages ==
    \/ FetchAll
    \/ FetchPage
    \/ FetchDone

\* The portal answers every request the loop makes.
SpecPages == Init /\ [][NextPages]_vars /\ WF_vars(FetchPage)

\* --------------------------------------------------------------- cache keys
\* json.Marshal of a struct: the fields' names and values in the order of
\* declaration; a nil slice (<<>>) is marshalled as null, a slice (<<list>>)
\* as the list in brackets
MarshalScopes(scopes) ==
    IF scopes = <<>> THEN <<"null">> ELSE <<"[">> \o scopes[1] \o <<"]">>

\* sha1.Sum and "%x": the digest of the bytes, kept as the bytes it is taken of
Sha1Hex(data) == [sha1 |-> data]

\* Sso.generateCacheFileName
generateCacheFileName(startURL, sessionName) ==
    <<Sha1Hex(<<"start_url", startURL, "session_name", sessionName>>), ".json">>

\* Mutant: the key also depends on the way of signing in.
registrationClientCacheKeyByMode(sso) ==
    Sha1Hex(<<"start_url", sso.StartURL, "region", sso.Region, "scopes">>
            \o MarshalScopes(sso.Scopes)
            \o <<"session_name", sso.SsoSessionName, sso.UseDeviceCode>>)

\* DeviceCodeFetcher.registrationClientCacheKey
registrationClientCacheKey(sso) ==
    Sha1Hex(<<"start_url", sso.StartURL, "region", sso.Region, "scopes">>
            \o MarshalScopes(sso.Scopes)
            \o <<"session_name", sso.SsoSessionName>>)

\* Sso.tokenCacheFilePath and DeviceCodeFetcher.registrationClientCachePath:
\* filepath.Join of the cache directory and the file name
tokenCacheFilePath(run) ==
    <<run.cacheDir>> \o generateCacheFileName(run.sso.StartURL, run.sso.SsoSessionName)
registrationClientCachePath(run) ==
    <<run.cacheDir, registrationClientCacheKey(run.sso), ".json">>

\* The Sso values and cache directories of a run
SsoValues ==
    [StartURL : {SsoStartURL, "https://portal.example/other"},
     SsoSessionName : {SsoSessionName, "session-2"},
     Region : {SsoRegion, "region-2"},
     Scopes : {<<>>, << <<>> >>, << <<"accounts">> >>},
     UseDeviceCode : BOOLEAN]
Runs == [sso : SsoValues, cacheDir : {"~/.byteplus/sso/cache", "/tmp/sso/cache"}]

\* Both runs compute the paths of their cache files.
ComputeKeys ==
    /\ keys.pc = "input"
    /\ keys' = [keys EXCEPT !.pc = "computed",
                  !.tokenPath = [i \in 1..2 |-> tokenCacheFilePath(keys.runs[i])],
                  !.registrationPath =
                      [i \in 1..2 |-> registrationClientCachePath(keys.runs[i])]]
    /\ UNCHANGED <<cliVars, getTokenVars, fsVars, clientVars, stsCall, fetch, cursor>>

InitKeys ==
    /\ CliIdle
    /\ GetTokenIdle
    /\ FSIdle(<<>>)
    /\ ClientIdle(LoggedInProfiles)
    /\ stsCall = NoSts
    /\ fetch = NoFetch
    /\ cursor = NoCursor
    /\ \E a \in Runs, b \in Runs : keys = [NoKeys EXCEPT !.pc = "input", !.runs = <<a, b>>]

NextKeys == ComputeKeys

SpecKeys == InitKeys /\ [][NextKeys]_vars

\* ------------------------------------------------- the operations of a session
\* Sso.GetAccessToken called for itself: the token goes to the caller; an
\* unparsable token cache file is removed by the read
GetAccessTokenCall ==
    /\ pc = "idle"
    /\ CanCall
    /\ tokenFile' = GetAccessToken(tokenFile, now).file
    /\ UNCHANGED <<now, regFile, nextClientId, pc, cached, client, auth, result,
                   trace, entry, fsVars, clientVars, resolverVars, cliVars>>

\* Profiles that are not bound to the session: Logout has none to clear.
UnboundProfiles == [n \in ProfileNames |-> Profile("ak", "", 0, 0, 1)]

InitSession ==
    /\ CliIdle
    /\ GetTokenIdle
    /\ FSIdle(<<>>)
    /\ ClientIdle(UnboundProfiles)
    /\ ResolverIdle

\* Login and GetToken, GetAccessToken and Logout of one user, one after the
\* other, in any order
NextSession ==
    \/ logout.pc = "idle" /\ GetToken
    \/ logout.pc = "idle" /\ GetTokenRegister
    \/ logout.pc = "idle" /\ GetTokenReRegister
    \/ logout.pc = "idle" /\ GetTokenRefresh
    \/ logout.pc = "idle" /\ StartDevice
    \/ logout.pc = "idle" /\ Poll
    \/ logout.pc = "idle" /\ PollTimeout
    \/ logout.pc = "idle" /\ Exit
    \/ logout.pc = "idle" /\ Tick
    \/ GetAccessTokenCall /\ logout.pc = "idle"
    \/ pc = "idle" /\ Logout
    \/ Attempt
    \/ LogoutRevoked
    \/ LogoutDone

SpecSession == InitSession /\ [][NextSession]_vars

\* ------------------------------------------------------------------ Login
\* Session names: 0 is the empty string, ConfiguredSession is the name the
\* configuration may hold, DanglingSession a name it never holds.
ConfiguredSession == 1
DanglingSession == ConfiguredSession + 1

\* The Sso a command is built with (no scopes given on the command line)
Sso(name, startURL, region, useDeviceCode) ==
    [SsoSessionName |-> name, StartURL |-> startURL, Region |-> region,
     UseDeviceCode |-> useDeviceCode, Scopes |-> <<>>]

\* An SsoSession of the configuration file
SsoSession(startURL, region) ==
    [StartURL |-> startURL, Region |-> region, RegistrationScopes |-> <<"scope">>]

\* cfg.SsoSession: no entry, a nil entry (<<>>), or a session whose start URL
\* and region are each set or empty
SessionEntries ==
    {<<>>} \cup {<<SsoSession(u, r)>> : u \in {0, 1}, r \in {0, 1}}

\* ctx.config: nil (<<>>), or a configuration with its map of SSO sessions
Configs ==
    {<<>>, <<[SsoSession |-> <<>>]>>}
    \cup {<<[SsoSession |-> [n \in {ConfiguredSession} |-> e]]>> : e \in SessionEntries}

SsoInputs ==
    {Sso(n, u, r, d) : n \in {0, Whitespace, ConfiguredSession, DanglingSession},
                       u \in FieldValues, r \in FieldValues, d \in BOOLEAN}

\* Mutant: a session the configuration does not hold is taken as a nil one.
loadSsoSessionDefaults(s, cfg) ==
    IF cfg = <<>>
    THEN [session |-> <<>>,
          err |-> <<"the configuration file cannot be loaded">>]
    ELSE IF TrimSpace(s.SsoSessionName) = 0
    THEN [session |-> <<>>, err |-> <<"the SSO session must be specified">>]
    ELSE IF s.SsoSessionName \notin DOMAIN cfg[1].SsoSession
    THEN [session |-> <<>>, err |-> <<>>]
    ELSE [session |-> cfg[1].SsoSession[s.SsoSessionName], err |-> <<>>]

\* Sso.loadSsoSession: the session (nil: <<>>) and the error
loadSsoSession(s, cfg) ==
    IF cfg = <<>>
    THEN [session |-> <<>>,
          err |-> <<"the configuration file cannot be loaded">>]
    ELSE IF TrimSpace(s.SsoSessionName) = 0
    THEN [session |-> <<>>, err |-> <<"the SSO session must be specified">>]
    ELSE IF s.SsoSessionName \notin DOMAIN cfg[1].SsoSession
    THEN [session |-> <<>>,
          err |-> <<"there is no SSO session named ", "SsoSessionName",
                    " in the configuration file">>]
    ELSE [session |-> cfg[1].SsoSession[s.SsoSessionName], err |-> <<>>]

\* Sso.applySessionDefaults: the Sso afterwards
applySessionDefaults(s, session) ==
    IF session = <<>> THEN s
    ELSE [s EXCEPT
            !.StartURL = IF TrimSpace(@) = 0 THEN session[1].StartURL ELSE @,
            !.Region = IF TrimSpace(@) = 0 THEN session[1].Region ELSE @,
            !.Scopes = IF Len(@) = 0 THEN session[1].RegistrationScopes ELSE @]

IncompleteMessage ==
    <<"the SSO information is incomplete. Please configure the profile first">>

\* Sso.Login up to newDeviceCodeFetcher: the error of the checks, and the
\* Sso GetToken is called with
LoginChecks(s, cfg) ==
    IF ~s.UseDeviceCode
    THEN [err |-> <<"currently, only device code authentication is supported">>,
          sso |-> s]
    ELSE IF TrimSpace(s.SsoSessionName) = 0
    THEN [err |-> IncompleteMessage, sso |-> s]
    ELSE LET l == loadSsoSession(s, cfg) IN
         IF l.err # <<>> THEN [err |-> l.err, sso |-> s]
         ELSE LET d == applySessionDefaults(s, l.session) IN
              IF TrimSpace(d.StartURL) = 0
              THEN [err |-> <<"the start URL of SSO session ", "SsoSessionName",
                              " is not configured">>, sso |-> d]
              ELSE IF TrimSpace(d.Region) = 0
              THEN [err |-> IncompleteMessage, sso |-> d]
              ELSE [err |-> <<>>, sso |-> d]

besideLogin == <<fsVars, clientVars, resolverVars, setProfile, store, logoutAll>>

\* Sso.Login: the checks, then fetcher.GetToken() when they pass
Login ==
    /\ login.pc = "idle"
    /\ pc = "idle"
    /\ \E s \in SsoInputs, cfg \in Configs :
         LET r == LoginChecks(s, cfg) IN
         login' = [pc |-> IF r.err # <<>> THEN "returned" ELSE "getToken",
                   sso |-> <<s>>, config |-> cfg, err |-> r.err]
    /\ UNCHANGED <<getTokenVars, besideLogin>>

\* if _, err := fetcher.GetToken(); err != nil
LoginReturn ==
    /\ login.pc = "getToken"
    /\ pc \in {"done", "failed"}
    /\ login' = [login EXCEPT
                   !.pc = "returned",
                   !.err = IF pc = "failed"
                           THEN <<"failed to obtain the access token: ">> \o result.err
                           ELSE <<>>]
    /\ UNCHANGED <<getTokenVars, besideLogin>>

\* fetcher.GetToken() of a Login, on an empty cache
LoginGetToken ==
    /\ login.pc = "getToken"
    /\ \/ GetToken
       \/ GetTokenRegister
       \/ StartDevice
       \/ Poll
       \/ PollTimeout

NextLogin ==
    \/ Login
    \/ LoginGetToken
    \/ LoginReturn

SpecLogin == Init /\ [][NextLogin]_vars

\* -------------------------------------------------------------- SetProfile
\* Profile names are numbers: 0 is the empty name, GivenName the name given
\* on the command line; fmt.Sprintf("%s-%s", roleName, accountId) gives a
\* name of its own to every role and account.
GivenName == 1
MaxItems == 2
GeneratedName(roleName, accountId) == 10 * roleName + accountId

\* The profile a command starts from: only the name may be set
NewProfile(name) ==
    [Name |-> name, Mode |-> "", SsoSessionName |-> 0, AccountId |-> 0,
     RoleName |-> 0, Region |-> 0, DisableSSL |-> <<>>]

\* ctx.config: nil (<<>>), or Current and Profiles
Configure(current, ps) == [Current |-> current, Profiles |-> ps]
StoredConfigs ==
    {<<>>, <<Configure(0, <<>>)>>,
     <<Configure(GivenName, [n \in {GivenName} |-> NewProfile(GivenName)])>>}

\* The accounts or roles the portal lists: ids 1..n, in order
ItemLists == {[i \in 1..n |-> i] : n \in 0..MaxItems}

\* Mutant: an aborted prompt answers with the first item.
promptSelectFirstOnAbort(items, choice) ==
    IF choice = 0 THEN [item |-> items[1], err |-> <<>>]
    ELSE [item |-> items[choice], err |-> <<>>]

\* promptSelectAccount, promptSelectRole: sel.Run() gives the index of the
\* item picked, or an error when the user aborts (choice 0)
promptSelect(items, choice) ==
    IF choice = 0 THEN [item |-> 0, err |-> <<"^C">>]
    ELSE [item |-> items[choice], err |-> <<>>]

besideSetProfile == <<fsVars, clientVars, resolverVars, login, store, logoutAll>>

SetProfileReturns(err) ==
    setProfile' = [setProfile EXCEPT !.pc = "returned", !.err = err]

SelectFailed(err) ==
    SetProfileReturns(<<"failed to select the account and role: ">> \o err)

\* Sso.SetProfile up to fetcher.GetToken()
SetProfile ==
    /\ setProfile.pc = "idle"
    /\ pc = "idle"
    /\ \E name \in {0, GivenName}, cfg \in StoredConfigs, d \in BOOLEAN :
         LET start == [NoSetProfile EXCEPT
                          !.profile = NewProfile(name), !.config = cfg, !.file = cfg,
                          !.before = [profile |-> NewProfile(name), config |-> cfg,
                                      file |-> cfg]]
         IN setProfile' =
              IF d THEN [start EXCEPT !.pc = "getToken"]
              ELSE [start EXCEPT
                      !.pc = "returned",
                      !.err = <<"currently, only device code authentication is supported">>]
    /\ UNCHANGED <<getTokenVars, besideSetProfile>>

\* fetcher.GetToken() of a SetProfile, on an empty cache
SetProfileGetToken ==
    /\ setProfile.pc = "getToken"
    /\ \/ GetToken
       \/ GetTokenRegister
       \/ StartDevice
       \/ Poll
       \/ PollTimeout

\* chooseAccountAndRole up to the account prompt: the token of GetToken, the
\* accounts of the portal, the account picked
ChooseAccount ==
    /\ setProfile.pc = "getToken"
    /\ pc \in {"done", "failed"}
    /\ IF pc = "failed"
       THEN SetProfileReturns(<<"failed to obtain the access token: ">> \o result.err)
       ELSE IF TrimSpace(result.token[1].AccessToken) = 0
       THEN SelectFailed(<<"access token is empty, please login again">>)
       ELSE \/ SelectFailed(<<"failed to list accounts">>)
            \/ \E accounts \in ItemLists :
                 IF Len(accounts) = 0
                 THEN SelectFailed(<<"no available accounts found for the current user">>)
                 ELSE \E choice \in 0..Len(accounts) :
                        LET account == promptSelect(accounts, choice) IN
                        IF account.err # <<>>
                        THEN setProfile' = [setProfile EXCEPT
                               !.pc = "returned", !.aborted = choice = 0,
                               !.err = <<"failed to select the account and role: ">>
                                       \o account.err]
                        ELSE setProfile' = [setProfile EXCEPT
                               !.pc = "roles", !.aborted = choice = 0,
                               !.account = account.item]
    /\ UNCHANGED <<getTokenVars, besideSetProfile>>

\* SetProfile after chooseAccountAndRole: the fields of s.Profile, the name
\* it is stored under, cfg.Profiles, cfg.Current and WriteConfigToFile
StoreSelection(accountId, roleName, writeFails) ==
    LET p == [setProfile.profile EXCEPT
                !.Mode = ModeSSO, !.SsoSessionName = ConfiguredSession,
                !.AccountId = accountId, !.RoleName = roleName, !.Region = 1,
                !.DisableSSL = <<FALSE>>,
                !.Name = IF @ = 0 THEN GeneratedName(roleName, accountId) ELSE @]
        old == IF setProfile.config = <<>> THEN <<>>
               ELSE setProfile.config[1].Profiles
        ps == [n \in DOMAIN old \cup {p.Name} |-> IF n = p.Name THEN p ELSE old[n]]
        cfg == <<Configure(p.Name, ps)>>
    IN [profile |-> p,
        config |-> IF setProfile.config = <<>> THEN <<>> ELSE cfg,
        file |-> IF writeFails THEN setProfile.file ELSE cfg,
        err |-> IF writeFails THEN <<"failed to write the configuration file">>
                ELSE <<>>]

\* chooseAccountAndRole from fetchAllRoles on, and the rest of SetProfile
ChooseRole ==
    /\ setProfile.pc = "roles"
    /\ \/ SelectFailed(<<"failed to list roles">>)
       \/ \E roles \in ItemLists :
            IF Len(roles) = 0
            THEN SelectFailed(<<"no roles available under account ", "AccountID">>)
            ELSE \E choice \in 0..Len(roles), writeFails \in BOOLEAN :
                   LET role == promptSelect(roles, choice) IN
                   IF role.err # <<>>
                   THEN setProfile' = [setProfile EXCEPT
                          !.pc = "returned", !.aborted = choice = 0,
                          !.err = <<"failed to select the account and role: ">>
                                  \o role.err]
                   ELSE LET st == StoreSelection(setProfile.account, role.item,
                                                 writeFails)
                        IN setProfile' = [setProfile EXCEPT
                             !.pc = "returned", !.aborted = @ \/ choice = 0,
                             !.profile = st.profile, !.config = st.config,
                             !.file = st.file, !.err = st.err]
    /\ UNCHANGED <<getTokenVars, besideSetProfile>>

NextSetProfile ==
    \/ SetProfile
    \/ SetProfileGetToken
    \/ ChooseAccount
    \/ ChooseRole

SpecSetProfile == Init /\ [][NextSetProfile]_vars

\* ----------------------------------------------------- the profile store
\* The names a configure command may be given: 0 is the empty string
MaxProfiles == 2
StoreNames == 0..MaxProfiles

\* The --region and --access-key values of a configure set (0: flag empty)
FlagValues == {<<0, 0>>, <<1, 1>>}

\* &Profile{Name: profile.Name, Mode: "AK", ...} of setConfigProfile
AKProfile(name) == [Name |-> name, Mode |-> "AK", Region |-> 0, AccessKey |-> 0]

\* LoadConfig: ctx.config of a new process, nil (<<>>) when the file holds no
\* configuration
LoadConfig(file) == file

NotFound == <<"configuration profile ", "profileName", " not found">>

\* Mutant: the current name stays as it is.
SetRandomCurrentProfileKeeps(cfg) == {cfg}

\* Configure.SetRandomCurrentProfile: the first key of the map iteration, any
\* key of cfg.Profiles; "" when there is none
SetRandomCurrentProfile(cfg) ==
    IF DOMAIN cfg.Profiles = {} THEN {[cfg EXCEPT !.Current = 0]}
    ELSE {[cfg EXCEPT !.Current = key] : key \in DOMAIN cfg.Profiles}

\* setConfigProfile: the configuration handed to WriteConfigToFile
setConfigProfile(config, profile) ==
    LET cfg == IF config = <<>> THEN Configure(0, <<>>) ELSE config[1]
        found == IF profile.Name \in DOMAIN cfg.Profiles
                 THEN cfg.Profiles[profile.Name] ELSE AKProfile(profile.Name)
        currentProfile ==
            [found EXCEPT
               !.AccessKey = IF profile.AccessKey # 0 THEN profile.AccessKey ELSE @,
               !.Region = IF profile.Region # 0 THEN profile.Region ELSE @]
    IN Configure(currentProfile.Name,
                 [n \in DOMAIN cfg.Profiles \cup {currentProfile.Name} |->
                    IF n = currentProfile.Name THEN currentProfile
                    ELSE cfg.Profiles[n]])

\* deleteConfigProfile: the error, or the configurations it may hand to
\* WriteConfigToFile
deleteConfigProfile(config, profileName) ==
    IF config = <<>> \/ profileName \notin DOMAIN config[1].Profiles
    THEN [err |-> NotFound, write |-> {}]
    ELSE LET cfg == [config[1] EXCEPT
                       !.Profiles = [n \in DOMAIN @ \ {profileName} |-> @[n]]]
         IN [err |-> <<>>,
             write |-> IF profileName = cfg.Current
                       THEN SetRandomCurrentProfile(cfg) ELSE {cfg}]

\* changeConfigProfile: the error, or the configuration it hands to
\* WriteConfigToFile (none when the profile is the current one already)
changeConfigProfile(config, profileName) ==
    IF config = <<>> \/ profileName \notin DOMAIN config[1].Profiles
    THEN [err |-> NotFound, write |-> {}]
    ELSE IF profileName = config[1].Current
    THEN [err |-> <<>>, write |-> {}]
    ELSE [err |-> <<>>, write |-> {[config[1] EXCEPT !.Current = profileName]}]

besideStore == <<getTokenVars, fsVars, clientVars, resolverVars, login, setProfile,
                 logoutAll>>

\* WriteConfigToFile at the end of a command: the file is replaced, or the
\* write fails and the file stays
Written(op, name, cfg, writeFails) ==
    store' = [file |-> IF writeFails THEN store.file ELSE <<cfg>>,
              last |-> [op |-> op, name |-> name, before |-> store.file,
                        err |-> IF writeFails
                                THEN <<"failed to write the configuration file">>
                                ELSE <<>>]]

\* The command returns without a write.
Unwritten(op, name, err) ==
    store' = [store EXCEPT
                !.last = [op |-> op, name |-> name, before |-> store.file,
                          err |-> err]]

\* bp configure set --profile name --region r --access-key k
ConfigureSet ==
    /\ \E name \in StoreNames, f \in FlagValues, writeFails \in BOOLEAN :
         LET flags == [AKProfile(name) EXCEPT !.Region = f[1], !.AccessKey = f[2]]
         IN Written("set", name, setConfigProfile(LoadConfig(store.file), flags),
                    writeFails)
    /\ UNCHANGED besideStore

\* bp configure delete --profile name
ConfigureDelete ==
    /\ \E name \in StoreNames, writeFails \in BOOLEAN :
         LET d == deleteConfigProfile(LoadConfig(store.file), name) IN
         IF d.err # <<>> THEN Unwritten("delete", name, d.err)
         ELSE \E cfg \in d.write : Written("delete", name, cfg, writeFails)
    /\ UNCHANGED besideStore

\* bp configure profile --profile name
ConfigureProfile ==
    /\ \E name \in StoreNames, writeFails \in BOOLEAN :
         LET c == changeConfigProfile(LoadConfig(store.file), name) IN
         IF c.write = {} THEN Unwritten("profile", name, c.err)
         ELSE \E cfg \in c.write : Written("profile", name, cfg, writeFails)
    /\ UNCHANGED besideStore

NextStore ==
    \/ ConfigureSet
    \/ ConfigureDelete
    \/ ConfigureProfile

SpecStore == Init /\ [][NextStore]_vars

\* ------------------------------------------------------- logoutAllSessions
\* The names of the SSO sessions a configuration may hold: numbers, ordered
\* the way sort.Strings orders the names
MaxSessions == 3
SessionNames == 1..MaxSessions

\* cfg.SsoSession when the logout command offers "All SSO sessions": two
\* entries or more, each a session (TRUE) or nil (FALSE)
SessionMaps ==
    UNION {[names -> BOOLEAN] : names \in {n \in SUBSET SessionNames :
                                             Cardinality(n) >= 2}}

\* for name := range cfg.SsoSession: the names in any order
RangeOrders(m) ==
    {o \in [1..Cardinality(DOMAIN m) -> DOMAIN m] :
        \A n \in DOMAIN m : \E i \in DOMAIN o : o[i] = n}

RECURSIVE InsertSorted(_, _)
InsertSorted(name, sorted) ==
    IF sorted = <<>> THEN <<name>>
    ELSE IF name <= Head(sorted) THEN <<name>> \o sorted
    ELSE <<Head(sorted)>> \o InsertSorted(name, Tail(sorted))

\* Mutant: the names stay in the order of the map iteration.
SortStringsSkipped(names) == names

\* sort.Strings(sessionNames)
RECURSIVE SortStrings(_)
SortStrings(names) ==
    IF names = <<>> THEN <<>>
    ELSE InsertSorted(Head(names), SortStrings(Tail(names)))

besideLogoutAll == <<getTokenVars, fsVars, clientVars, resolverVars, login,
                     setProfile, store>>

\* logoutAllSessions up to the loop: the names, sorted
LogoutAllSessions ==
    /\ logoutAll.pc = "idle"
    /\ \E m \in SessionMaps :
         \E o \in RangeOrders(m) :
           logoutAll' = [NoLogoutAll EXCEPT
                           !.pc = "loop", !.sessions = m,
                           !.sessionNames = SortStrings(o), !.i = 1]
    /\ UNCHANGED besideLogoutAll

\* One turn of the loop: a nil session is passed over, any other is logged
\* out, and a failure is noted
LogoutSession ==
    /\ logoutAll.pc = "loop"
    /\ logoutAll.i <= Len(logoutAll.sessionNames)
    /\ LET name == logoutAll.sessionNames[logoutAll.i] IN
       IF ~logoutAll.sessions[name]
       THEN logoutAll' = [logoutAll EXCEPT !.i = @ + 1]
       ELSE \E logoutFails \in BOOLEAN :
              logoutAll' = [logoutAll EXCEPT
                              !.i = @ + 1,
                              !.attempts = Append(@, name),
                              !.failed = IF logoutFails THEN @ \cup {name} ELSE @,
                              !.failures = IF logoutFails THEN Append(@, name)
                                           ELSE @]
    /\ UNCHANGED besideLogoutAll

\* if len(failures) > 0 { return fmt.Errorf(...) }; return nil
LogoutAllReturn ==
    /\ logoutAll.pc = "loop"
    /\ logoutAll.i > Len(logoutAll.sessionNames)
    /\ logoutAll' = [logoutAll EXCEPT
                       !.pc = "returned",
                       !.err = IF Len(logoutAll.failures) > 0
                               THEN <<"failed to logout some sso sessions: ">>
                                    \o logoutAll.failures
                               ELSE <<>>]
    /\ UNCHANGED besideLogoutAll

NextLogoutAll ==
    \/ LogoutAllSessions
    \/ LogoutSession
    \/ LogoutAllReturn

SpecLogoutAll == Init /\ [][NextLogoutAll]_vars

\* ------------------------------------------------------------------ claims
Returned == pc \in {"done", "failed"}
Events == 1..Len(trace)
IsNetwork(i) == trace[i].op \in NetworkOps
IsRefresh(i) == trace[i].op = "CreateToken" /\ trace[i].grant = "refresh_token"
IsDevicePoll(i) == trace[i].op = "CreateToken" /\ trace[i].grant = deviceCodeGrantType
IsStore(i) == trace[i].op = "storeToken"

\* expires_at of a cached record lies strictly after time t
InFuture(expiresAt, t) ==
    /\ ParseRFC3339(expiresAt).ok
    /\ ParseRFC3339(expiresAt).t > t

\* GetToken found a token record with an access token that expires later
EntryTokenValid ==
    /\ entry.file.kind = "json"
    /\ entry.file.rec.AccessToken # 0
    /\ InFuture(entry.file.rec.ExpiresAt, entry.at)

\* C1: when the token cache holds a record with a non-empty access token
\* whose expires_at is in the future, GetToken returns exactly that record,
\* makes no network call (and no cache write), and leaves the file as it was.
C1_FastPath ==
    (pc # "idle" /\ EntryTokenValid) =>
        /\ pc = "done"
        /\ result = Success(entry.file.rec)
        /\ trace = <<>>
        /\ tokenFile = entry.file

C1_Witness ==
    /\ pc = "done"
    /\ EntryTokenValid
    /\ result.token = <<entry.file.rec>>

\* C2: a refresh answered invalid_client is followed by RegisterClient and
\* by nothing else; device authorization then starts with the client that
\* registration issued, and a token the flow ends with (returned and stored)
\* carries that client's id, not the id the refresh used.
C2_ReRegister ==
    \A i \in Events :
        (IsRefresh(i) /\ trace[i].res = "invalid_client") =>
            /\ i = Len(trace) => pc = "reregister"
            /\ i < Len(trace) => trace[i + 1].op = "RegisterClient"
            /\ \A j \in Events :
                 (j > i /\ trace[j].op = "StartDeviceAuthorization") =>
                    /\ trace[i + 1].res = "ok"
                    /\ trace[j].ClientID = trace[i + 1].ClientID
                    /\ trace[j].ClientSecret = trace[i + 1].ClientSecret
                    /\ trace[j].ClientID # trace[i].ClientID
            /\ pc = "done" =>
                 /\ \E j \in Events : j > i /\ trace[j].op = "StartDeviceAuthorization"
                 /\ result.token[1].ClientId = trace[i + 1].ClientID
                 /\ result.token[1].ClientId # trace[i].ClientID
                 /\ tokenFile = JSONFile(result.token[1])

C2_Witness ==
    /\ pc = "done"
    /\ \E i \in Events : IsRefresh(i) /\ trace[i].res = "invalid_client"
    /\ entry.file.kind = "json"
    /\ entry.file.rec.RefreshToken # 0
    /\ tokenExpired(entry.file.rec.ExpiresAt, entry.at)

\* C3: a refresh answered invalid_token is followed directly by
\* StartDeviceAuthorization with the client id and secret the refresh
\* carried; no RegisterClient call follows the failed refresh.
C3_FallbackToDeviceAuth ==
    \A i \in Events :
        (IsRefresh(i) /\ trace[i].res = "invalid_token") =>
            /\ i = Len(trace) => pc = "startDevice"
            /\ i < Len(trace) =>
                 /\ trace[i + 1].op = "StartDeviceAuthorization"
                 /\ trace[i + 1].ClientID = trace[i].ClientID
                 /\ trace[i + 1].ClientSecret = trace[i].ClientSecret
            /\ \A j \in Events : j > i => trace[j].op # "RegisterClient"

C3_Witness ==
    \E i \in Events :
        /\ IsRefresh(i) /\ trace[i].res = "invalid_token"
        /\ i < Len(trace)
        /\ trace[i + 1].op = "StartDeviceAuthorization"
        /\ trace[i + 1].res = "ok"

\* C4: a refresh answered with any other error code (authorization_pending,
\* the terminal codes, an unrecognized code or none) ends GetToken with an
\* error: nothing follows the failed refresh, neither RegisterClient nor
\* StartDeviceAuthorization.
C4_RefreshHardFailure ==
    \A i \in Events :
        (IsRefresh(i) /\ trace[i].res \in ErrorCodes \ {"invalid_client", "invalid_token"}) =>
            /\ i = Len(trace)
            /\ pc = "failed"
            /\ result.token = <<>>
            /\ result.err # <<>>

C4_Witness ==
    /\ pc = "failed"
    /\ trace # <<>>
    /\ IsRefresh(Len(trace))
    /\ trace[Len(trace)].res = "authorization_pending"

\* The codes a refresh or a poll may be answered with that the
\* classification does not know.
UnrecognizedCodes == ErrorCodes \ DocumentedCodes
Terminal(a) == ~a.Retry /\ ~a.ReRegister /\ ~a.FallbackToDeviceAuth /\ a.Message # <<>>
Contains(msg, fragment) == \E k \in 1..Len(msg) : msg[k] = fragment

\* C5: classification is complete (each documented code gets its action,
\* an unrecognized code a terminal message that names it), and for an
\* unrecognized code that message is the one GetToken reports.
C5_ClassificationReported ==
    /\ \A c \in DocumentedCodes :
         LET cl == classifyCreateTokenError(OAuthAPIError(c)) IN
         /\ cl.ok
         /\ c = "authorization_pending" =>
                cl.action.Retry /\ ~cl.action.ReRegister /\ ~cl.action.FallbackToDeviceAuth
         /\ c = "invalid_client" =>
                cl.action.ReRegister /\ ~cl.action.Retry /\ ~cl.action.FallbackToDeviceAuth
         /\ c = "invalid_token" =>
                cl.action.FallbackToDeviceAuth /\ ~cl.action.Retry /\ ~cl.action.ReRegister
         /\ c \notin {"authorization_pending", "invalid_client", "invalid_token"} =>
                Terminal(cl.action)
    /\ \A c \in UnrecognizedCodes :
         LET cl == classifyCreateTokenError(OAuthAPIError(c)) IN
         Terminal(cl.action) /\ Contains(cl.action.Message, c)
    /\ (pc = "failed" /\ trace # <<>> /\ trace[Len(trace)].op = "CreateToken"
        /\ trace[Len(trace)].res \in UnrecognizedCodes) =>
            result.err = classifyCreateTokenError(
                            OAuthAPIError(trace[Len(trace)].res)).action.Message

\* C6: in the poll loop, after any number of authorization_pending answers
\* and a successful one, the loop stores exactly one token record, right
\* after the successful response and with its access token; nothing is
\* stored while the answers are authorization_pending.
C6_PollStoresOnce ==
    /\ \A j \in Events :
         IsStore(j) =>
            /\ j > 1 /\ j = Len(trace)
            /\ trace[j - 1].op = "CreateToken" /\ trace[j - 1].res = "ok"
            /\ trace[j].AccessToken = trace[j - 1].AccessToken
            /\ \A k \in Events : IsStore(k) => k = j
    /\ \A i \in Events :
         (IsDevicePoll(i) /\ trace[i].res = "ok") =>
            /\ \A k \in 1..(i - 1) :
                 IsDevicePoll(k) => trace[k].res = "authorization_pending"
            /\ i + 1 = Len(trace) /\ IsStore(i + 1)
            /\ trace[i + 1].res = "ok" =>
                 /\ pc = "done"
                 /\ result.token[1].AccessToken = trace[i].AccessToken
                 /\ tokenFile = JSONFile(result.token[1])
    /\ pc = "poll" => \A j \in Events : ~IsStore(j)

C6_Witness ==
    /\ pc = "done"
    /\ Cardinality({i \in Events : IsDevicePoll(i)
                                   /\ trace[i].res = "authorization_pending"}) = 3
    /\ IsStore(Len(trace))
    /\ tokenFile.rec.AccessToken = trace[Len(trace) - 1].AccessToken

\* C7: the first answer of a poll that is an error other than
\* authorization_pending ends the loop: GetToken fails, that request is the
\* last one and no token is stored.
C7_PollStopsOnError ==
    \A i \in Events :
        (IsDevicePoll(i) /\ trace[i].res \notin {"ok", "authorization_pending"}) =>
            /\ i = Len(trace)
            /\ pc = "failed"
            /\ result.token = <<>>
            /\ \A j \in Events : ~IsStore(j)

C7_Witness ==
    /\ pc = "failed"
    /\ Len(trace) >= 2
    /\ IsDevicePoll(Len(trace)) /\ trace[Len(trace)].res = "expired_token"
    /\ IsDevicePoll(Len(trace) - 1)
    /\ trace[Len(trace) - 1].res = "authorization_pending"

TimedOut == pc = "failed" /\ result.err = TimeoutMessage
WroteCache(i) == trace[i].op \in WriteOps /\ trace[i].res = "ok"

\* C8 as claimed: when the poll loop runs past expires_in without a token,
\* GetToken returns the timeout error and the invocation has written no
\* cache record.
C8_TimeoutWritesNothing ==
    TimedOut => \A i \in Events : ~WroteCache(i)

\* C8 as amended: when the poll loop runs past expires_in without a token,
\* GetToken returns the timeout error and no token has been stored: every
\* poll was answered authorization_pending, the cache writes of the
\* invocation are the client-credential writes made before
\* StartDeviceAuthorization, and the token cache file carries the tokens it
\* carried when GetToken started (none when it held no record).
C8_TimeoutStoresNoToken ==
    TimedOut =>
        /\ ~BeforeDeadline(now, auth.deadline)
        /\ result.token = <<>>
        /\ \A i \in Events : ~IsStore(i)
        /\ \A i \in Events : IsDevicePoll(i) => trace[i].res = "authorization_pending"
        /\ \E s \in Events :
             /\ trace[s].op = "StartDeviceAuthorization"
             /\ \A w \in Events : trace[w].op \in WriteOps => w < s
        /\ tokenFile.kind = "json" =>
             LET old == IF entry.file.kind = "json" THEN entry.file.rec ELSE ZeroToken IN
             /\ tokenFile.rec.AccessToken = old.AccessToken
             /\ tokenFile.rec.RefreshToken = old.RefreshToken
             /\ tokenFile.rec.ExpiresAt = old.ExpiresAt

C8_Witness ==
    /\ TimedOut
    /\ \E i \in Events : IsDevicePoll(i)
    /\ \E i \in Events : WroteCache(i)
    /\ tokenFile.kind = "json" /\ tokenFile.rec.AccessToken = 0

\* C9: every CreateToken request of the poll loop is issued strictly before
\* start + expires_in.
C9_PollBeforeDeadline ==
    \A i \in Events : IsDevicePoll(i) => trace[i].at < auth.deadline

ReadAsAbsent == entry.file.kind \in {"absent", "empty", "garbage"}
TokenFileWritten == \E i \in Events :
    trace[i].op \in {"persistClientCredentials", "storeToken"}

\* C10 as claimed: a missing token cache file reads as absent, and a file
\* that fails to parse reads as absent and is removed from disk.
C10_UnparsableRemoved ==
    (pc # "idle" /\ ReadAsAbsent) =>
        /\ cached = <<>>
        /\ entry.file.kind \in {"empty", "garbage"} =>
              tokenFile.kind \notin {"empty", "garbage"}

\* C10 as amended: a missing token cache file reads as absent; a file that
\* fails to parse reads as absent, without an error, and is removed from
\* disk unless it is empty (the decoder reports io.EOF), in which case it
\* stays in place until the flow attempts a write of the token cache.  In each case
\* GetToken goes on as with no cached token (no fast path, cached is nil).
C10_SelfHealing ==
    (pc # "idle" /\ ReadAsAbsent) =>
        /\ cached = <<>>
        /\ pc = "done" => trace # <<>>
        /\ (pc = "failed" /\ trace = <<>>) =>
              /\ loadClientRegistration(regFile).err # <<>>
              /\ result.err = ErrorText(loadClientRegistration(regFile).err[1])
        /\ entry.file.kind = "garbage" => tokenFile.kind \in {"absent", "json"}
        /\ (entry.file.kind = "garbage" /\ ~TokenFileWritten) => tokenFile.kind = "absent"
        /\ (entry.file.kind = "empty" /\ ~TokenFileWritten) => tokenFile = entry.file

C10_Witness ==
    /\ pc = "done"
    /\ entry.file.kind = "garbage"
    /\ tokenFile.kind = "json"
    /\ \E i \in Events : trace[i].op = "RegisterClient"

RegistrationUnparsable == entry.reg.kind \in {"empty", "garbage"}
\* GetToken started with a token record that takes the fast path
EntryFastPath == entry.file.kind = "json" /\ FastPath(<<entry.file.rec>>, entry.at)

\* C11 as claimed: a client-registration cache file that exists but fails to
\* parse makes GetToken fail before any network call, and neither cache file
\* is written or removed.
C11_RegistrationParseFails ==
    (pc # "idle" /\ RegistrationUnparsable) =>
        /\ pc = "failed"
        /\ trace = <<>>
        /\ regFile = entry.reg
        /\ tokenFile = entry.file

\* C11 as amended: with a client-registration cache file that exists but
\* fails to parse (an empty file included), a GetToken that gets past the
\* fast path fails with the read error before any network call or cache
\* write; the registration file is left as it was, and the token cache file
\* too unless it was itself unparsable and non-empty, which the token read
\* has removed.  On the fast path the registration file is not read and
\* GetToken succeeds.
C11_RegistrationParseError ==
    (pc # "idle" /\ RegistrationUnparsable) =>
        /\ trace = <<>>
        /\ regFile = entry.reg
        /\ IF EntryFastPath
           THEN pc = "done" /\ tokenFile = entry.file
           ELSE /\ pc = "failed"
                /\ result.token = <<>>
                /\ result.err = <<"failed to read the client cache">>
                /\ tokenFile = IF entry.file.kind = "garbage"
                               THEN AbsentFile(ZeroToken) ELSE entry.file

C11_Witness ==
    /\ pc = "failed"
    /\ entry.reg.kind = "garbage"
    /\ entry.file.kind = "json" /\ entry.file.rec.ClientId # 0
    /\ ~EntryFastPath
    /\ trace = <<>>

\* What the final cache path holds
PathContent == IF link = <<>> THEN AbsentFile(ZeroToken) ELSE inode[link[1]]
CompleteRecords == {JSONFile(Payload(i)) : i \in Inodes}
AllReturned == \A w \in Writers : wpc[w] \in {"ok", "error"}

\* C12: whatever step of a cache write a writer has reached or crashed at
\* (temp-file create, chmod, encode, close, rename, remove and second
\* rename), the final path holds the complete previous record, no file or
\* a complete new record, never a part of a record; until a rename or a
\* remove of the path has happened it holds what it held before.
C12_AtomicWrite ==
    /\ PathContent \in {AbsentFile(ZeroToken)} \cup CompleteRecords
    /\ lastOp.kind = "init" => PathContent = JSONFile(Payload(PrevInode))
    /\ lastOp.kind = "none" => PathContent = AbsentFile(ZeroToken)

C12_Witness ==
    \E w \in Writers :
        /\ wpc[w] = "crashed"
        /\ tempName[w]
        /\ inode[w] = JSONFile(Payload(w))
        /\ lastOp.kind = "init"
        /\ PathContent = JSONFile(Payload(PrevInode))

\* C13 as claimed: the reader observes absent or one complete record, and
\* once both writers have returned the file holds the record of the writer
\* whose replace happened last.
C13_LastWriterWins ==
    /\ rd.observed \in {AbsentFile(ZeroToken)} \cup CompleteRecords
    /\ (AllReturned /\ lastOp.winner \in Writers) =>
            PathContent = JSONFile(Payload(lastOp.winner))

\* C13 as amended: under every interleaving the reader observes absent or
\* one complete record (the previous one or a writer's), never a torn one.
\* Once both writers have returned, the path holds the outcome of its last
\* replace or remove: the record of the writer whose rename succeeded last,
\* or no file when after that a writer whose first rename had failed removed
\* the target and failed its second rename too (that writer returns an
\* error).  When both writers return success the last replace wins.
C13_CompleteRecordOrNone ==
    /\ rd.observed \in {AbsentFile(ZeroToken)} \cup CompleteRecords
    /\ rd.step = "Decode" => inode[rd.handle[1]] \in CompleteRecords
    /\ AllReturned =>
         /\ lastOp.kind = "replace" => PathContent = JSONFile(Payload(lastOp.by))
         /\ lastOp.kind = "remove" =>
              /\ PathContent = AbsentFile(ZeroToken)
              /\ lastOp.by \in Writers /\ wpc[lastOp.by] = "error"
         /\ (\A w \in Writers : wpc[w] = "ok") =>
              /\ lastOp.kind = "replace"
              /\ PathContent = JSONFile(Payload(lastOp.winner))

C13_Witness ==
    /\ \A w \in Writers : wpc[w] = "ok"
    /\ rd.reads >= 1
    /\ rd.observed \in CompleteRecords
    /\ rd.observed # PathContent
    /\ rd.observed # JSONFile(Payload(PrevInode))
    /\ PathContent = JSONFile(Payload(lastOp.winner))

\* The client of the registration cache GetToken started with, if that
\* record carries a client id and secret; the client embedded in the token
\* record; the one of the two the resolution is to take.
EntryRegistration ==
    IF entry.reg.kind = "json" /\ entry.reg.rec.ClientID # 0
       /\ entry.reg.rec.ClientSecret # 0
    THEN <<[id |-> entry.reg.rec.ClientID,
            exp |-> entry.reg.rec.ClientSecretExpiresAt]>>
    ELSE <<>>
EntryEmbedded ==
    IF entry.file.kind = "json" /\ entry.file.rec.ClientId # 0
       /\ entry.file.rec.ClientSecret # 0
    THEN <<[id |-> entry.file.rec.ClientId,
            exp |-> entry.file.rec.ClientSecretExpiresAt]>>
    ELSE <<>>
EntryClient == IF EntryRegistration # <<>> THEN EntryRegistration ELSE EntryEmbedded
\* client_secret_expires_at is non-zero and not in the future
SecretExpiredAt(exp, t) == exp # 0 /\ exp <= t
MustRegister ==
    \/ EntryClient = <<>>
    \/ SecretExpiredAt(EntryClient[1].exp, entry.at)
ResolutionRan == pc # "idle" /\ ~EntryFastPath /\ ~RegistrationUnparsable
IsRegister(i) == trace[i].op = "RegisterClient"

\* C14: past the fast path, the client resolution of GetToken calls
\* RegisterClient if and only if there is no usable registration (neither the
\* registration cache, which reads as absent when its record lacks the
\* client id and secret, nor the token record carries a client id and secret)
\* or the secret of the resolved registration has expired; otherwise the
\* resolved client (the embedded one when the registration cache has none)
\* is persisted and used, and RegisterClient is called later only in answer
\* to a refresh that failed with invalid_client.
C14_ClientResolution ==
    /\ loadClientRegistration(JSONFile(ZeroRegistration))
          = loadClientRegistration(AbsentFile(ZeroRegistration))
    /\ ResolutionRan =>
        IF MustRegister
        THEN \/ pc = "register" /\ trace = <<>>
             \/ trace # <<>> /\ IsRegister(1)
        ELSE /\ pc # "register"
             /\ trace # <<>>
             /\ trace[1].op = "persistClientCredentials"
             /\ trace[1].ClientID = EntryClient[1].id
             /\ \A i \in Events :
                  IsRegister(i) =>
                     i > 1 /\ IsRefresh(i - 1) /\ trace[i - 1].res = "invalid_client"

C14_Witness ==
    /\ pc = "done"
    /\ ResolutionRan
    /\ entry.reg.kind = "absent"
    /\ EntryEmbedded # <<>>
    /\ trace[1].ClientID = EntryEmbedded[1].id
    /\ \A i \in Events : ~IsRegister(i)

\* registerClient succeeded with the calls i, i+1, i+2 of the trace
RegisteredAt(i) ==
    /\ i + 2 <= Len(trace)
    /\ IsRegister(i) /\ trace[i].res = "ok"
    /\ trace[i + 1].op = "cacheClientRegistration" /\ trace[i + 1].res = "ok"
    /\ trace[i + 2].op = "persistClientCredentials" /\ trace[i + 2].res = "ok"

\* C15: after a successful registerClient (and until a later registration
\* or a failed cache write of the invocation) the registration cache record
\* and the token cache record both carry the newly issued client id and
\* secret; after GetToken returns successfully through a non-fast path, the
\* client id of the token record is that of the registration cache record
\* whenever the registration cache holds a client.
C15_ClientIdentityConsistent ==
    /\ \A i \in Events :
         (/\ RegisteredAt(i)
          /\ \A j \in (i + 3)..Len(trace) :
               /\ ~IsRegister(j)
               /\ trace[j].op \in WriteOps => trace[j].res = "ok") =>
            /\ regFile.kind = "json"
            /\ regFile.rec.ClientID = trace[i].ClientID
            /\ regFile.rec.ClientSecret = trace[i].ClientSecret
            /\ tokenFile.kind = "json"
            /\ tokenFile.rec.ClientId = trace[i].ClientID
            /\ tokenFile.rec.ClientSecret = trace[i].ClientSecret
    /\ (pc = "done" /\ trace # <<>> /\ regFile.kind = "json"
        /\ regFile.rec.ClientID # 0) =>
            /\ tokenFile.kind = "json"
            /\ tokenFile.rec.ClientId = regFile.rec.ClientID

C15_Witness ==
    /\ pc = "done"
    /\ \E i \in Events : i > 1 /\ RegisteredAt(i)
                         /\ regFile.rec.ClientID = trace[i].ClientID
    /\ tokenFile.rec.ClientId = regFile.rec.ClientID
    /\ entry.file.kind = "json"
    /\ entry.file.rec.ClientId \notin {0, tokenFile.rec.ClientId}

IsWrite(j) == trace[j].op \in WriteOps
\* The call before j that is a network call is a successful one.
FollowsSuccess(j) ==
    \E i \in 1..(j - 1) :
        /\ IsNetwork(i) /\ trace[i].res = "ok"
        /\ \A k \in (i + 1)..(j - 1) : ~IsNetwork(k)

\* C16 as claimed: within one GetToken invocation every cache write follows
\* a successful network response: none before the first successful network
\* call, none after a failed one without a later successful one.
C16_WritesFollowNetwork ==
    \A j \in Events : IsWrite(j) => FollowsSuccess(j)

\* C16 as amended: within one GetToken invocation every cache write follows
\* a successful network response (the registration cache and the client
\* credentials a successful RegisterClient, the token a successful
\* CreateToken), except the defensive write of an already usable client onto
\* the token record, which is the first step past the cache reads and
\* precedes every network call.
C16_WritesFollowSuccess ==
    \A j \in Events :
        IsWrite(j) =>
            \/ /\ FollowsSuccess(j)
               /\ trace[j].op = "cacheClientRegistration" => IsRegister(j - 1)
               /\ trace[j].op = "persistClientCredentials" => IsRegister(j - 2)
               /\ IsStore(j) => trace[j - 1].op = "CreateToken"
            \/ /\ j = 1
               /\ trace[j].op = "persistClientCredentials"
               /\ ~MustRegister
               /\ trace[j].ClientID = EntryClient[1].id

C16_Witness ==
    /\ pc = "done"
    /\ trace # <<>>
    /\ trace[1].op = "persistClientCredentials"
    /\ \E i \in Events : IsRefresh(i) /\ trace[i].res = "invalid_client"
    /\ \E i \in Events : RegisteredAt(i)
    /\ IsStore(Len(trace))

\* ------------------------------------------------- client calls and Logout
AnyCall == {"RegisterClient", "CreateToken", "RevokeToken",
            "StartDeviceAuthorization", "Portal"}
Blank(x) == x \in {0, Whitespace}
BlankText(s) == s \in {"", " "}
RefreshGrants == {"refresh_token", "REFRESH_TOKEN"}
DeviceGrants == {deviceCodeGrantType, "device_code", "Device_Code"}
FailedLocally ==
    /\ oauthCall.state = "returned"
    /\ requests = <<>>
    /\ oauthCall.err # <<>>

\* C17: one RegisterClient call sends at most 1 HTTP request whatever the
\* failure; one CreateToken, RevokeToken, StartDeviceAuthorization or portal
\* call sends at most 3; every request but the last of a call met a
\* transport failure or a 5xx answer, so a structured 4xx error such as
\* authorization_pending is returned after the request that met it.
C17_RetryBudgets ==
    /\ oauthCall.op = "RegisterClient" => Len(requests) <= 1
    /\ oauthCall.op \in AnyCall => Len(requests) <= 3
    /\ \A i \in 1..(Len(requests) - 1) :
            requests[i].status = 0 \/ requests[i].status \div 100 = 5
    /\ \A i \in 1..Len(requests) :
            requests[i].status \div 100 = 4 =>
                /\ i = Len(requests)
                /\ oauthCall.state = "returned"
                /\ oauthCall.err # <<>>

C17_Witness ==
    /\ oauthCall.op = "RegisterClient"
    /\ oauthCall.state = "returned"
    /\ Len(requests) = 1
    /\ requests[1].status = 500
    /\ oauthCall.err = <<OAuthAPIError("server_error")>>

\* C18: CreateToken fails without sending an HTTP request when the grant
\* type, the client id or the client secret is blank, when the refresh_token
\* grant comes with a blank refresh token, when the device-code grant comes
\* with a blank device code, and when the grant type is neither of the two
\* (the grant names are matched without regard to case, and device_code is
\* accepted as a name of the device-code grant).
C18_ValidateBeforeNetwork ==
    oauthCall.op = "CreateToken" =>
        LET q == oauthCall.req
        IN /\ BlankText(q.GrantType) => FailedLocally
           /\ Blank(q.ClientID) \/ Blank(q.ClientSecret) => FailedLocally
           /\ q.GrantType \in RefreshGrants /\ Blank(q.RefreshToken) => FailedLocally
           /\ q.GrantType \in DeviceGrants /\ Blank(q.DeviceCode) => FailedLocally
           /\ q.GrantType \notin RefreshGrants \cup DeviceGrants => FailedLocally

C18_Witness ==
    /\ oauthCall.op = "CreateToken"
    /\ oauthCall.req.GrantType = "refresh_token"
    /\ ~Blank(oauthCall.req.ClientID)
    /\ ~Blank(oauthCall.req.ClientSecret)
    /\ oauthCall.req.RefreshToken = Whitespace
    /\ FailedLocally
    /\ oauthCall.err = <<PlainError("refreshToken is required for refresh_token grant")>>

\* C19 as stated: RevokeToken called with a blank token sends no HTTP request
\* and completes without reporting a failure.
C19_BlankTokenNoOp ==
    oauthCall.op = "RevokeToken" /\ Blank(oauthCall.req.Token) =>
        /\ oauthCall.state = "returned"
        /\ requests = <<>>
        /\ oauthCall.err = <<>>

LogoutSkippedRevoke ==
    /\ logout.pc = "done"
    /\ logout.token # <<>>
    /\ ~Blank(logout.token[1].ClientId)
    /\ ~Blank(logout.token[1].ClientSecret)
    /\ Blank(logout.token[1].RefreshToken)

\* C19, amended: RevokeToken called with a blank token sends no HTTP request
\* and fails, with "token is required" when client id and secret are given;
\* Logout, finding a blank refresh token in the cached record, does not call
\* RevokeToken and its revoke step reports no failure (Logout goes on to
\* delete the cache file).
C19_BlankTokenLocal ==
    /\ oauthCall.op = "RevokeToken" /\ Blank(oauthCall.req.Token) =>
          /\ FailedLocally
          /\ ~Blank(oauthCall.req.ClientID) /\ ~Blank(oauthCall.req.ClientSecret) =>
                oauthCall.err = <<PlainError("token is required")>>
    /\ LogoutSkippedRevoke =>
          /\ logout.revokeCalls = 0
          /\ logout.removed \/ logout.err = <<PlainError("failed to remove token cache file")>>

C19_Witness ==
    /\ oauthCall.op = "RevokeToken"
    /\ oauthCall.req.Token = Whitespace
    /\ ~Blank(oauthCall.req.ClientID)
    /\ ~Blank(oauthCall.req.ClientSecret)
    /\ FailedLocally

StsCleared(p) ==
    [p EXCEPT !.AccessKey = 0, !.SecretKey = 0, !.SessionToken = 0,
              !.StsExpiration = 0]

\* C20: a Logout that finds no cached token calls no RevokeToken, deletes no
\* cache entry and, in each SSO profile bound to the session, clears the
\* access key, secret key, session token and STS expiration and nothing
\* else: account id and role name, and every other profile, stay as they
\* were.
C20_LogoutClearsStsOnly ==
    logout.pc = "done" /\ logout.token = <<>> /\ logout.err = <<>> =>
        /\ logout.revokeCalls = 0
        /\ ~logout.removed
        /\ \A n \in ProfileNames :
              profiles[n] = IF BoundToSession(logout.before[n])
                            THEN StsCleared(logout.before[n])
                            ELSE logout.before[n]

\* ------------------------------------------------------ confirmation URL
NoURLMessage == <<"failed to start device authorization: verificationURI is empty">>
Synthesized == <<"verification_uri", "?user_code=", "user_code">>

\* C28: the confirmation URL is the server's verification_uri_complete, or
\* is put together from verification_uri and user_code when the server omits
\* it; the poll loop is entered with a non-empty URL only, and when there is
\* none GetToken fails right after StartDeviceAuthorization, before any
\* sleep, CreateToken call or token write.
C28_ConfirmationURLRequired ==
    /\ \A a \in StartDeviceAuthorizationAnswers :
          a.err = <<>> =>
             LET r == a.resp[1]
             IN ConfirmationURL(r) =
                   IF r.VerificationURIComplete # 0 THEN <<"verification_uri_complete">>
                   ELSE IF r.VerificationURI # 0 /\ r.UserCode # 0 THEN Synthesized
                   ELSE <<>>
    /\ (pc = "poll" \/ \E i \in Events : IsDevicePoll(i)) => auth.url # <<>>
    /\ (pc = "failed" /\ result.err = NoURLMessage) =>
          /\ trace # <<>>
          /\ trace[Len(trace)].op = "StartDeviceAuthorization"
          /\ trace[Len(trace)].res = "ok"
          /\ trace[Len(trace)].at = now
          /\ \A i \in Events : ~IsDevicePoll(i) /\ ~IsStore(i)
          /\ auth = NoAuth

C28_Witness ==
    /\ pc = "failed"
    /\ result.err = NoURLMessage
    /\ trace # <<>>
    /\ trace[Len(trace)].op = "StartDeviceAuthorization"
    /\ trace[Len(trace)].res = "ok"

\* ------------------------------------------------------- states of GetToken
\* The state of the flow the invocation is in
Phase(p) ==
    CASE p = "idle" -> "NoToken"
      [] p = "register" -> "ClientResolving"
      [] p = "refresh" -> "Refreshing"
      [] p = "reregister" -> "ClientReRegistering"
      [] p \in {"startDevice", "poll"} -> "DeviceAuthorizing"
      [] p = "done" -> "Authorized"
      [] p = "failed" -> "Failed"

\* The transitions of the flow.  Client resolution from the caches is part
\* of GetToken's first step, so NoToken also leads to where ClientResolving
\* leads; a valid cached token is returned from NoToken at once; a returned
\* invocation is followed by the next one.
Transitions ==
    {<<"NoToken", "ClientResolving">>, <<"NoToken", "Refreshing">>,
     <<"NoToken", "DeviceAuthorizing">>, <<"NoToken", "Authorized">>,
     <<"ClientResolving", "Refreshing">>, <<"ClientResolving", "DeviceAuthorizing">>,
     <<"Refreshing", "Authorized">>, <<"Refreshing", "ClientReRegistering">>,
     <<"Refreshing", "DeviceAuthorizing">>,
     <<"ClientReRegistering", "DeviceAuthorizing">>,
     <<"DeviceAuthorizing", "DeviceAuthorizing">>, <<"DeviceAuthorizing", "Authorized">>,
     <<"Authorized", "NoToken">>, <<"Failed", "NoToken">>}
    \cup {<<q, "Failed">> : q \in {"NoToken", "ClientResolving", "Refreshing",
                                    "ClientReRegistering", "DeviceAuthorizing"}}

Count(op) == Cardinality({i \in Events : trace[i].op = op})

\* C29: every step of GetToken is one of the transitions NoToken ->
\* ClientResolving -> (Refreshing | DeviceAuthorizing) -> Authorized,
\* Refreshing -> ClientReRegistering -> DeviceAuthorizing, Refreshing ->
\* DeviceAuthorizing, any state -> Failed (NoToken -> Authorized only for a
\* cached token that is still valid); one invocation makes at most one
\* refresh CreateToken, at most one StartDeviceAuthorization and at most two
\* RegisterClient calls.
C29_SpecifiedTransitions ==
    [][/\ pc' # pc => <<Phase(pc), Phase(pc')>> \in Transitions
       /\ (pc = "idle" /\ pc' = "done") => trace' = <<>>
       /\ Cardinality({i \in DOMAIN trace' : trace'[i].op = "CreateToken"
                                             /\ trace'[i].grant = "refresh_token"}) <= 1
       /\ Cardinality({i \in DOMAIN trace' : trace'[i].op = "StartDeviceAuthorization"}) <= 1
       /\ Cardinality({i \in DOMAIN trace' : trace'[i].op = "RegisterClient"}) <= 2]_vars

C29_Witness ==
    /\ pc = "done"
    /\ Count("RegisterClient") = 1
    /\ Count("StartDeviceAuthorization") = 1
    /\ \E i \in Events : IsRefresh(i) /\ trace[i].res = "invalid_client"
    /\ \E i \in Events : IsDevicePoll(i) /\ trace[i].res = "authorization_pending"

\* --------------------------------------------------------- order of Logout
\* C21: a Logout that found a cached token and whose revoke failed returns
\* an error and leaves the token cache file, the profiles in memory and the
\* configuration file as they were; the cache file is deleted only after a
\* revoke that succeeded or was skipped for want of a refresh token, and the
\* profiles are cleared only after the deletion.
C21_RevokeFailureAborts ==
    logout.token # <<>> =>
        /\ logout.pc = "revoking" \/ logout.revoke = "failed" =>
              /\ tokenFile = JSONFile(logout.token[1])
              /\ profiles = logout.before
              /\ configFile = logout.disk
              /\ ~logout.removed
        /\ logout.revoke = "failed" => logout.pc = "done" /\ logout.err # <<>>
        /\ logout.revoke = "skipped" => Blank(logout.token[1].RefreshToken)
        /\ logout.removed => logout.revoke \in {"ok", "skipped"}
        /\ profiles # logout.before \/ configFile # logout.disk => logout.removed

C21_Witness ==
    /\ logout.pc = "done"
    /\ logout.token # <<>>
    /\ logout.revokeCalls = 1
    /\ logout.revoke = "failed"
    /\ \E n \in ProfileNames : BoundToSession(profiles[n]) /\ profiles[n].SessionToken # 0

\* ------------------------------------------------------- EnsureValidStsToken
\* The profile EnsureValidStsToken was given, as it was on entry
StsGiven == stsCall.before[stsCall.given]

\* Nothing was asked of the portal, the token cache was not read and is as
\* it was, and the profiles and the configuration file are as they were.
StsNoOp ==
    /\ stsCall.err = <<>>
    /\ stsCall.calls = 0
    /\ ~stsCall.readCache
    /\ tokenFile = stsCall.file
    /\ ~stsCall.wrote
    /\ profiles = stsCall.before
    /\ configFile = stsCall.disk

\* C22, as stated: EnsureValidStsToken is a no-op when the profile's stored
\* session token is non-empty and its STS expiration is in the future.
C22_NonEmptyTokenNoOp ==
    (/\ stsCall.pc = "done"
     /\ StsGiven.SessionToken # 0
     /\ stsCall.at < UnixTimestampToTime(StsGiven.StsExpiration))
    => StsNoOp

\* C22, amended: EnsureValidStsToken is a no-op when the profile's stored
\* session token is non-empty after surrounding whitespace is trimmed and its
\* STS expiration is in the future: it makes no network call, does not read
\* or write the token cache, leaves all profile fields unchanged and does not
\* write the configuration.
C22_NonBlankTokenNoOp ==
    (/\ stsCall.pc = "done"
     /\ TrimSpace(StsGiven.SessionToken) # 0
     /\ stsCall.at < UnixTimestampToTime(StsGiven.StsExpiration))
    => StsNoOp

\* A no-op one second before the expiration, on a token cache file that a
\* read would have removed, for a profile that is not the current one
C22_Witness ==
    /\ stsCall.pc = "done"
    /\ StsGiven.SessionToken = 1
    /\ stsCall.at + 1 = StsGiven.StsExpiration
    /\ stsCall.given # stsCall.current
    /\ stsCall.file = GarbageFile(ZeroToken)
    /\ StsNoOp

\* The four fields of a profile that hold its STS credentials
StsFields(p) == <<p.AccessKey, p.SecretKey, p.SessionToken, p.StsExpiration>>
CredentialFields(c) ==
    <<c.AccessKeyID, c.SecretAccessKey, c.SessionToken, c.Expiration>>

\* C23: when EnsureValidStsToken(profile) refreshes, the profile's access
\* key, secret key, session token and expiration are the fresh
\* RoleCredentials, the change is persisted under that profile's own entry,
\* and every other entry of the configuration is as it was, in memory and on
\* disk, also when the profile is not the current one; when obtaining the
\* credentials fails, nothing changes and the configuration is not written.
C23_RefreshStoresUnderOwnEntry ==
    stsCall.pc = "done" =>
        IF stsCall.fresh # <<>>
        THEN /\ stsCall.wrote =>
                  /\ StsFields(configFile[stsCall.given])
                        = CredentialFields(stsCall.fresh[1])
                  /\ \A n \in ProfileNames \ {stsCall.given} :
                        configFile[n] = stsCall.disk[n]
             /\ \A n \in ProfileNames \ {stsCall.given} :
                        profiles[n] = stsCall.before[n]
        ELSE /\ profiles = stsCall.before
             /\ configFile = stsCall.disk
             /\ ~stsCall.wrote

\* The token cache holds an access token that has expired, and a refresh
\* token with the client it was issued to.
ExpiredButRenewable(file, t) ==
    /\ file.kind = "json"
    /\ TrimSpace(file.rec.AccessToken) # 0
    /\ ParseRFC3339(file.rec.ExpiresAt).ok
    /\ t > ParseRFC3339(file.rec.ExpiresAt).t
    /\ TrimSpace(file.rec.RefreshToken) # 0
    /\ TrimSpace(file.rec.ClientId) # 0
    /\ TrimSpace(file.rec.ClientSecret) # 0

\* C24: when GetRoleCredentials finds the cached access token expired and a
\* refresh token cached, the token is renewed and the credential exchange
\* proceeds: the call does not fail for the expired access token.
C24_RenewsExpiredToken ==
    (/\ stsCall.pc = "done"
     /\ stsCall.readCache
     /\ ExpiredButRenewable(stsCall.file, stsCall.at))
    => /\ stsCall.err # <<AccessTokenExpired>>
       /\ stsCall.calls = 1

\* ---------------------------------------------------------------- pagination
\* The cursor the pagination model gives a response, in the integers
SpecifiedCursor(total, pageNumber, pageSize) ==
    IF pageNumber > 0 /\ pageSize > 0 /\ total > pageNumber * pageSize
    THEN Itoa(pageNumber + 1)
    ELSE <<>>

\* C25, as stated: for every response (total, page_number, page_size) the
\* next cursor is page_number+1 exactly when total > page_number*page_size,
\* and absent otherwise, absent also when page_number <= 0 or page_size <= 0.
C25_NextCursor ==
    cursor.pc = "computed" =>
        cursor.NextToken = SpecifiedCursor(cursor.Total, cursor.PageNumber, cursor.PageSize)

\* C25, amended: the same for every response whose product
\* page_number*page_size lies within the range of the int.
C25_NextCursorInRange ==
    (/\ cursor.pc = "computed"
     /\ cursor.PageNumber * cursor.PageSize \in Ints)
    => cursor.NextToken = SpecifiedCursor(cursor.Total, cursor.PageNumber, cursor.PageSize)

\* A full last page: total = page_number*page_size, no cursor
C25_Witness ==
    /\ cursor.pc = "computed"
    /\ cursor.PageNumber = 2
    /\ cursor.PageSize = 3
    /\ cursor.Total = 6
    /\ cursor.NextToken = <<>>

\* The page carries no next cursor.
NoNextToken(a) ==
    a.err = <<>> /\ computeNextToken(a.Total, a.PageNumber, a.PageSize) = <<>>

\* The page satisfies total <= page_number*page_size.
LastByFigures(a) == a.err = <<>> /\ a.Total <= a.PageNumber * a.PageSize

\* The items of the first n pages of the server, in order
RECURSIVE Concat(_, _)
Concat(server, n) ==
    IF n = 0 THEN <<>>
    ELSE Concat(server, n - 1) \o PageItems(n, server[n].count)

\* C26, as stated: when some page of the sequence satisfies
\* total <= page_number*page_size, the loop ends at the first such page and
\* returns the concatenation, in order, of the items of all pages seen.
C26_StopsAtLastByFigures ==
    (/\ fetch.pc = "done"
     /\ fetch.err = <<>>
     /\ \E i \in DOMAIN fetch.server : LastByFigures(fetch.server[i]))
    => /\ LastByFigures(fetch.server[fetch.seen])
       /\ \A i \in 1..(fetch.seen - 1) : ~LastByFigures(fetch.server[i])
       /\ fetch.result = <<Concat(fetch.server, fetch.seen)>>

\* The loop has stopped where it must: on success at the first page without
\* a next cursor, with all items seen; on an error with nil.
FetchStopped ==
    fetch.pc = "done" =>
        IF fetch.err = <<>>
        THEN /\ NoNextToken(fetch.server[fetch.seen])
             /\ \A i \in 1..(fetch.seen - 1) : ~NoNextToken(fetch.server[i])
             /\ fetch.result = <<Concat(fetch.server, fetch.seen)>>
        ELSE fetch.result = <<>>

\* C26, amended: for every sequence of paginated responses in which some page
\* carries no next cursor, the accumulation loop terminates, on success at the
\* first such page with exactly the concatenation, in order, of the items of
\* all pages seen; an error on any page aborts with no partial result.
C26_StopsAtFirstPageWithoutCursor ==
    /\ []FetchStopped
    /\ (fetch.pc = "fetching" /\ \E i \in DOMAIN fetch.server : NoNextToken(fetch.server[i]))
          ~> fetch.pc = "done"

\* Three pages gathered, the last of them without a page number although
\* its total exceeds page_number*page_size
C26_Witness ==
    /\ fetch.pc = "done"
    /\ fetch.err = <<>>
    /\ fetch.seen = 3
    /\ Len(fetch.result[1]) > 3
    /\ fetch.server[3].PageNumber = 0
    /\ ~LastByFigures(fetch.server[3])

\* --------------------------------------------------------------- cache keys
\* The two runs agree on the fields named.
SameOn(fields) ==
    \A f \in fields : keys.runs[1].sso[f] = keys.runs[2].sso[f]
SameDir == keys.runs[1].cacheDir = keys.runs[2].cacheDir

C30_RegistrationNeverRemoved ==
    [][regFile.kind # "absent" => regFile'.kind # "absent"]_vars

\* C30, amended: an existing registration cache file is removed only by a
\* registration that rewrites it and fails in both renames of the write,
\* which ends GetToken with that error; Logout and GetAccessToken leave the
\* registration cache file as it is, and the only cache file Logout removes
\* is the token cache file.
C30_RemovedOnlyByFailedRewrite ==
    [][/\ (regFile.kind # "absent" /\ regFile'.kind = "absent") =>
            /\ pc \in {"register", "reregister"}
            /\ pc' = "failed"
            /\ result'.err = <<"failed to persist client registration: ",
                               "failed to replace cache file">>
            /\ tokenFile' = tokenFile
       /\ (logout' # logout \/ logout.pc # "idle") =>
            /\ regFile' = regFile
            /\ tokenFile' # tokenFile => tokenFile'.kind = "absent"
       /\ (pc = "idle" /\ pc' = "idle") => regFile'.kind # "absent" \/ regFile' = regFile
      ]_vars

\* A Logout that revoked the token and removed the token cache file, with
\* the registration of the client still cached
C30_Witness ==
    /\ logout.pc = "done"
    /\ logout.revoke = "ok"
    /\ logout.removed
    /\ tokenFile.kind = "absent"
    /\ regFile.kind = "json"
    /\ regFile.rec.ClientID = logout.token[1].ClientId

\* ------------------------------------------------------------ expiry boundary
\* GetToken returned the cached record at once.
TookFastPath == pc = "done" /\ trace = <<>> /\ result = Success(entry.file.rec)

\* C33: at every time now >= expires_at, now = expires_at included, GetToken
\* does not take the fast path and GetAccessToken returns the expiry error;
\* an empty or unparsable expires_at is never treated as valid.
C33_ValidOnlyBeforeExpiry ==
    /\ (/\ pc # "idle"
        /\ entry.file.kind = "json"
        /\ entry.file.rec.AccessToken # 0
        /\ \/ ~ParseRFC3339(entry.file.rec.ExpiresAt).ok
           \/ entry.at >= ParseRFC3339(entry.file.rec.ExpiresAt).t)
       => ~TookFastPath
    /\ (/\ stsCall.pc = "done"
        /\ stsCall.readCache
        /\ stsCall.file.kind = "json"
        /\ TrimSpace(stsCall.file.rec.AccessToken) # 0
        /\ \/ ~ParseRFC3339(stsCall.file.rec.ExpiresAt).ok
           \/ stsCall.at >= ParseRFC3339(stsCall.file.rec.ExpiresAt).t)
       => stsCall.err # <<>> /\ stsCall.calls = 0

\* ------------------------------------------------------ tokens after a refresh
\* The refresh of this invocation was answered with a token.
RefreshedAt(i) == IsRefresh(i) /\ trace[i].res = "ok"

C37_SuccessReturnsUsableToken ==
    pc = "done" =>
        /\ result.token # <<>>
        /\ result.token[1].AccessToken # 0
        /\ ParseRFC3339(result.token[1].ExpiresAt).ok
        /\ ParseRFC3339(result.token[1].ExpiresAt).t >= now

\* ------------------------------------------------- client identity of a record
\* Event i is a TokenRecord written to the token cache by the flow.
WroteRecord(i) ==
    /\ trace[i].op \in {"persistClientCredentials", "storeToken"}
    /\ trace[i].res = "ok"

\* C38: every TokenRecord the flow writes to the token cache carries a
\* non-empty client_id and client_secret, and the record a write leaves in the
\* cache has the start_url and session_name of its fingerprint, so a Logout
\* that loads it does not fail for missing client credentials.
C38_WrittenRecordsCarryClient ==
    /\ \A i \in Events : WroteRecord(i) =>
         trace[i].ClientID # 0 /\ trace[i].ClientSecret # 0
    /\ ((\E i \in Events : WroteRecord(i)) /\ tokenFile.kind = "json") =>
         /\ tokenFile.rec.StartURL = ZeroToken.StartURL
         /\ tokenFile.rec.SessionName = ZeroToken.SessionName
         /\ revokeCachedTokenStep(tokenFile.rec) # "error"

\* ------------------------------------------------------- a failed cache write
\* Writer w is the only process that has touched the cache so far.
Alone(w) == \A v \in Writers \ {w} : wpc[v] = "CreateTemp"

\* The path holds what it held before any write began.
PathUntouched ==
    /\ lastOp.kind \in {"none", "init"}
    /\ lastOp.kind = "init" => PathContent = JSONFile(Payload(PrevInode))
    /\ lastOp.kind = "none" => PathContent = AbsentFile(ZeroToken)

\* C39 as claimed: whenever writeJSONFileAtomic has returned an error, the
\* target path still holds the previous record with its previous content and
\* no temp file of the write is left.
C39_FailedWriteChangesNothing ==
    \A w \in Writers :
        (wpc[w] = "error" /\ Alone(w)) => PathUntouched /\ ~tempName[w]

\* C39, amended: after writeJSONFileAtomic has returned an error the target
\* path holds what it held before, or the write itself has removed the file
\* on the way to its second rename and nothing is at the path; after a
\* successful return no temp file of the write exists.
C39_FailedWriteKeepsOrRemoves ==
    \A w \in Writers :
        /\ (wpc[w] = "error" /\ Alone(w)) =>
              \/ PathUntouched
              \/ /\ lastOp.kind = "remove" /\ lastOp.by = w
                 /\ PathContent = AbsentFile(ZeroToken)
        /\ wpc[w] = "ok" => ~tempName[w]

\* A write that failed at its second rename after removing the previous record
C39_Witness ==
    \E w \in Writers :
        /\ wpc[w] = "error" /\ Alone(w)
        /\ lastOp.kind = "remove" /\ lastOp.by = w
        /\ lastOp.winner = PrevInode
        /\ PathContent = AbsentFile(ZeroToken)
        /\ ~tempName[w]

\* ------------------------------------------------------- the poll loop ends
\* Every sleep the loop can still take ends within the time the model covers.
WithinHorizon == auth.deadline - 1 + auth.interval <= MaxTime

\* The intervals the loop can run with: the server's when > 0, else 5 seconds
LoopIntervals ==
    {IF i > 0 THEN i ELSE DefaultInterval : i \in IntervalValues}

\* Request i is issued one interval after the request before it.
SleptBefore(i) ==
    /\ i > 1
    /\ trace[i - 1].op = "StartDeviceAuthorization" \/ IsDevicePoll(i - 1)
    /\ trace[i].at = trace[i - 1].at + auth.interval

\* The device authorization was granted no time at all.
NoTimeGranted ==
    /\ auth # NoAuth
    /\ \E i \in Events : /\ trace[i].op = "StartDeviceAuthorization"
                         /\ auth.deadline <= trace[i].at

PollSafe ==
    /\ auth # NoAuth => auth.interval \in LoopIntervals
    /\ \A i \in Events : IsDevicePoll(i) => SleptBefore(i)
    /\ (NoTimeGranted /\ pc # "poll") =>
          /\ pc = "failed"
          /\ result.err = TimeoutMessage
          /\ \A i \in Events : ~IsDevicePoll(i)

\* C35: the poll loop of performDeviceAuthorization ends, with the token
\* stored, an error or the timeout, whatever the server answers, endless
\* authorization_pending included; every device-code CreateToken request
\* comes one interval after the request before it, the interval being the
\* server's when > 0 and 5 seconds otherwise; and with expires_in <= 0 the
\* timeout error is returned without any CreateToken request.
C35_PollEnds ==
    /\ []PollSafe
    /\ (pc = "poll" /\ WithinHorizon) ~> Returned

\* The server answered authorization_pending until the deadline had passed.
C35_Witness ==
    /\ pc = "failed"
    /\ result.err = TimeoutMessage
    /\ Len(trace) >= 3
    /\ IsDevicePoll(Len(trace)) /\ IsDevicePoll(Len(trace) - 1)
    /\ trace[Len(trace)].res = "authorization_pending"
    /\ trace[Len(trace)].at >= auth.deadline

\* --------------------------------------------------------- Login fails fast
\* What Login would call GetToken with, were the session found
Resolved(s, cfg) == applySessionDefaults(s, cfg[1].SsoSession[s.SsoSessionName])

\* Device-code mode is off, the session name is blank, the configuration does
\* not hold the named session, or the resolved start URL or region is blank.
InputError(s, cfg) ==
    \/ ~s.UseDeviceCode
    \/ TrimSpace(s.SsoSessionName) = 0
    \/ cfg # <<>> /\ s.SsoSessionName \notin DOMAIN cfg[1].SsoSession
    \/ /\ cfg # <<>> /\ s.SsoSessionName \in DOMAIN cfg[1].SsoSession
       /\ \/ TrimSpace(Resolved(s, cfg).StartURL) = 0
          \/ TrimSpace(Resolved(s, cfg).Region) = 0

\* C31: a Login whose input is in error returns an error, and no request has
\* been sent and no cache file read or written by then: GetToken never started.
C31_LoginFailsFast ==
    (login.pc = "returned" /\ InputError(login.sso[1], login.config)) =>
        /\ login.err # <<>>
        /\ pc = "idle"
        /\ trace = <<>>
        /\ tokenFile = AbsentFile(ZeroToken)
        /\ regFile = AbsentFile(ZeroRegistration)

\* A Login that names a session the configuration does not hold, with the
\* start URL and the region given on the command line
C31_Witness ==
    /\ login.pc = "returned"
    /\ login.sso[1] = Sso(DanglingSession, 1, 1, TRUE)
    /\ login.config # <<>>
    /\ login.err # <<>>
    /\ pc = "idle"

\* --------------------------------------------------- an aborted SetProfile
\* The profile, ctx.config and the configuration file are as SetProfile found
\* them.
NothingConfigured ==
    /\ setProfile.profile = setProfile.before.profile
    /\ setProfile.config = setProfile.before.config
    /\ setProfile.file = setProfile.before.file

AbortedSetProfile == setProfile.pc = "returned" /\ setProfile.aborted

\* C32 as claimed: after an aborted account or role prompt SetProfile has
\* returned an error, the profile and the configuration are as before, and
\* nothing the invocation wrote is left on disk.
C32_AbortLeavesNothing ==
    AbortedSetProfile =>
        /\ setProfile.err # <<>>
        /\ NothingConfigured
        /\ tokenFile = AbsentFile(ZeroToken)
        /\ regFile = AbsentFile(ZeroRegistration)

\* C32, amended: after an aborted account or role prompt SetProfile has
\* returned an error and the profile, the configuration in memory and the
\* configuration file are as before; the token record GetToken stored before
\* the prompt is still in the token cache.
C32_AbortLeavesConfiguration ==
    AbortedSetProfile =>
        /\ setProfile.err # <<>>
        /\ NothingConfigured
        /\ pc = "done"
        /\ tokenFile = JSONFile(result.token[1])

\* The role prompt was aborted after an account had been picked.
C32_Witness ==
    /\ AbortedSetProfile
    /\ setProfile.account # 0
    /\ setProfile.before.config # <<>>
    /\ tokenFile.kind = "json"
    /\ regFile.kind = "json"

\* ------------------------------------------------- the current profile name
\* The names of the profiles a configuration file holds
Stored(file) == IF file = <<>> THEN {} ELSE DOMAIN file[1].Profiles

Succeeded(op) == store.last.op = op /\ store.last.err = <<>>

\* C34: after any sequence of configure set, delete and profile commands the
\* current profile name is empty or names a stored profile; a set leaves the
\* profile it wrote current; a delete of the current profile leaves another
\* stored profile current, or none when no profile remains; a switch to a
\* profile that is not stored fails and leaves the file as it was.
C34_CurrentNamesAProfile ==
    /\ store.file # <<>> =>
         store.file[1].Current = 0 \/ store.file[1].Current \in Stored(store.file)
    /\ Succeeded("set") =>
         /\ store.last.name \in Stored(store.file)
         /\ store.file[1].Current = store.last.name
    /\ (Succeeded("delete") /\ store.last.before[1].Current = store.last.name) =>
         /\ store.last.name \notin Stored(store.file)
         /\ Stored(store.file) = Stored(store.last.before) \ {store.last.name}
         /\ IF Stored(store.file) = {} THEN store.file[1].Current = 0
            ELSE store.file[1].Current \in Stored(store.file)
    /\ (store.last.op = "profile" /\ store.last.name \notin Stored(store.last.before)) =>
         /\ store.last.err # <<>>
         /\ store.file = store.last.before

\* The current profile was deleted while another one was stored.
C34_Witness ==
    /\ Succeeded("delete")
    /\ store.last.before[1].Current = store.last.name
    /\ Stored(store.file) # {}
    /\ store.file[1].Current \in Stored(store.file)
    /\ store.file[1].Current # 0

\* ------------------------------------------------- logout of every session
\* The elements of a sequence
Range(seq) == {seq[i] : i \in DOMAIN seq}

\* The sequence goes up strictly: ascending, nothing twice.
Ascending(seq) == \A i, j \in DOMAIN seq : i < j => seq[i] < seq[j]

\* C40: logoutAllSessions has called Logout for every non-nil session of the
\* configuration once, in ascending order of the names, whether or not an
\* earlier Logout failed; it returns an error exactly when a Logout failed,
\* and the error names the sessions whose Logout failed.
C40_EverySessionOnce ==
    logoutAll.pc = "returned" =>
        /\ Ascending(logoutAll.attempts)
        /\ Range(logoutAll.attempts) =
              {n \in DOMAIN logoutAll.sessions : logoutAll.sessions[n]}
        /\ logoutAll.err # <<>> <=> logoutAll.failed # {}
        /\ logoutAll.err # <<>> =>
              /\ Range(Tail(logoutAll.err)) = logoutAll.failed
              /\ Ascending(Tail(logoutAll.err))

\* The first Logout failed and the sessions after it were still logged out.
C40_Witness ==
    /\ logoutAll.pc = "returned"
    /\ Len(logoutAll.attempts) >= 2
    /\ logoutAll.failed = {logoutAll.attempts[1]}
    /\ \E n \in DOMAIN logoutAll.sessions : ~logoutAll.sessions[n]
    /\ logoutAll.err # <<>>

====
